---- MODULE Spec2Model ----
(***************************************************************************)
(* Model of the transscreen capture -> encode -> shared buffer pipeline.   *)
(*                                                                         *)
(*   utils/src/contiguous.rs          RingBuffer, GrowableBuffer           *)
(*   screen_cap/src/record/...        EncodedBuffer, RecordWorker          *)
(*   screen_cap/src/capture.rs        CaptureWorker, ThreadedCapturer      *)
(*   app/src/lib.rs                   the file-writing consumer            *)
(*   utils/src/multibuffer.rs         MultiBuffer (raw-frame double buffer)*)
(*   screen_cap/src/record/mod.rs     Recorder: headers handshake, methods *)
(*   app/src/async_adapter/mod.rs     recorder_managing_thread             *)
(*                                                                         *)
(* Indices into the byte arena are 0-based as in the source; chunks of     *)
(* data are sequences (1-based).  RingBuffer<M> is generic in M and never  *)
(* inspects the bytes or the metadata it stores, so every written chunk is *)
(* filled with the ordinal of its write and M carries, next to is_key, the *)
(* same ordinal (seq): a chunk read back identifies the write it came from.*)
(***************************************************************************)
EXTENDS Integers, Sequences, FiniteSets, TLC

VARIABLES
    rb,       \* RingBuffer: buf, items, write_head_position, id_offset
    gb,       \* GrowableBuffer: buf, items
    written,  \* history: one record per successful RingBuffer::write, in order
    nops,     \* number of calls made so far
    nstaged,  \* number of GrowableBuffer::write calls made so far
    lastOp,   \* the last call: its name, argument length and result
    buffered_frames,  \* BufferingSettings::buffered_frames
    readers,  \* read guards held on the RwLock around the ring buffer
    back,     \* MultiBuffer::back, the capture worker's frame (its ordinal)
    front,    \* MultiBuffer::front, the shared frame (its ordinal)
    frontReaders,  \* read guards held on the RwLock around the front frame
    capPc,    \* where the capture worker thread is
    capRes,   \* the result the capture worker is about to send
    capChan,  \* results of the capture worker not yet received
    ngrabs,   \* number of Capturer::frame calls made so far
    encPc,    \* where the encoder worker thread is
    encRes,   \* the result the encoder worker is about to send
    encChunk, \* the chunk encode returned, until it is written
    encFrames,  \* the frames passed to encode so far, in order
    encChan,  \* results of the encoder worker, in the order sent
    consPc,   \* where the consumer is
    last_chunk_id,  \* the consumer's last_chunk_id
    cursor,   \* the id the consumer reads next
    id_max,   \* id_bounds().max as the consumer read it under its guard
    received, \* the items the consumer got from get(), in order
    gotNone,  \* whether a get() of the consumer returned None
    grabLimit,  \* number of capture iterations the run is followed for
    newPc,    \* where Recorder::new is
    wfPc,     \* where the worker thread running worker_factory is
    headers_dest,  \* the Mutex<Option<Box<[u8]>>> shared by the two
    hdrLock,  \* who holds that mutex: "none", "new" or "worker"
    encHeaders,  \* the bytes encoder.headers() gave the worker
    headers,  \* the headers Recorder::new returns in Self
    workChan, \* ThreadLoop<RecordWorker>: results sent and not yet received
    nsent,    \* number of results the worker thread has sent
    workerAlive,  \* the worker thread still owns its Sender
    recPc,    \* where the thread calling the Recorder's methods is
    recRet,   \* the last call of a Recorder method and what it returned
    consumed, \* the results the call in progress (or last call) received
    pendingAtCall,  \* the channel's content when that call was made
    ncalls,   \* number of calls of Recorder methods made so far
    adPc,     \* where recorder_managing_thread is
    adResult, \* the result of its current iteration's wait_for_frame
    results,  \* the results of all its iterations so far, in order
    recorder_rx,  \* RecorderMessages sent and not yet received
    txAlive,  \* some RecorderAsyncAdapter (a Sender) still exists
    flush_waiters,  \* the Vec of parked WaitForNextFlush destinations
    deliveries, \* every send_result the thread made, in order
    nreqs,    \* number of requests sent so far
    adLimit,  \* number of iterations the recorder thread is followed for
    return_dest,  \* ReturnDestination::return_dest of every destination
    notify,   \* ReturnDestination::notify of every destination
    tasks,    \* the tasks that call the adapter: where each of them is
    issued,   \* for every request: the task, adapter and call that sent it
    returns,  \* every call that returned, with what it took from its slot
    dropped,  \* the requests whose call was dropped while suspended
    data_buffer_rx, \* destinations sent to data_buffer_managing_thread
    tlPc,     \* where the thread of a ThreadLoop is (ThreadLoopWorker::run)
    toWorker, \* MessageToWorker sent and not yet received
    tlOwner,  \* what the owner holds: the builder, the ThreadLoop, nothing
    afterJoin, \* work() calls completed since Join was sent
    dequeued, \* the messages the thread took from its channel, in order
    ringWriter,  \* the operation holding the ring's writer lock, or "none"
    dumpPos,  \* dump in progress: the staged item its loop writes next
    published \* the ring as the last release of the writer lock left it

ringVars == <<rb, gb, written, nops, nstaged, lastOp>>
capVars == <<back, front, capPc, capRes, ngrabs>>
encVars == <<encPc, encRes, encChunk, encFrames, encChan>>
consVars == <<consPc, last_chunk_id, cursor, id_max, received, gotNone>>
pipeVars == <<buffered_frames, readers, frontReaders, capChan,
              capVars, encVars, consVars>>

hsVars == <<newPc, wfPc, headers_dest, hdrLock, encHeaders, headers>>
recVars == <<workChan, nsent, workerAlive, recPc, recRet, consumed,
             pendingAtCall, ncalls>>
adVars == <<adPc, adResult, results, recorder_rx, txAlive, flush_waiters,
            deliveries, nreqs, adLimit>>
callVars == <<return_dest, notify, tasks, issued, returns, dropped,
              data_buffer_rx>>
loopVars == <<tlPc, toWorker, tlOwner, afterJoin, dequeued>>
lockVars == <<ringWriter, dumpPos, published>>
extVars == <<grabLimit, hsVars, recVars, adVars, callVars, loopVars,
             lockVars>>
vars == <<ringVars, pipeVars, extVars>>

\* capacity of the arena (RingBuffer::new(cap))
Cap == 4
\* number of RingBuffer::write calls explored
MaxWrites == 4
\* number of GrowableBuffer::write calls explored
MaxStage == 3
\* number of dump_into_ring_buffer calls explored
MaxDumps == 2
\* number of frames the capture worker grabs
MaxFrames == 2
\* largest buffered_frames setting explored
MaxBuffered == 1
\* SpecStatus: capture iterations followed, and the largest buffered_frames
MaxIters == 4
MaxPreBuffer == 2
\* SpecHeaders: the longest header block the encoder gives
MaxHeaderLen == 3
\* SpecRecorder: results the worker sends, calls the Recorder's owner makes
MaxResults == 3
MaxCalls == 2
\* SpecAdapter: iterations of the recorder thread, requests sent
MaxAdIters == 2
MaxReqs == 2
\* SpecLoop: work() calls made before the owner lets go
MaxLoopWork == 2
\* SpecCalls and SpecGuards: iterations of the recorder thread, calls made
MaxCallIters == 1
MaxTaskCalls == 2
\* SpecLock: capture iterations followed
MaxLockIters == 4

None == [none |-> TRUE]

-----------------------------------------------------------------------------
(* contiguous.rs: RingBuffer                                               *)

ItemData(start_index, length, metadata) ==
    [start_index |-> start_index, length |-> length, metadata |-> metadata]

BufferItem(data, metadata) == [data |-> data, metadata |-> metadata]

RingBufferNew(cap) ==
    [buf |-> [i \in 0..(cap - 1) |-> 0],
     items |-> <<>>,
     write_head_position |-> 0,
     id_offset |-> 0]

BufLen(r) == Cardinality(DOMAIN r.buf)

\* buf[lo..hi) as a sequence of bytes
Slice(buf, lo, hi) == [k \in 1..(hi - lo) |-> buf[lo + k - 1]]

TooLarge_geq(data, cap) == Len(data) >= cap

\* if data.len() > self.buf.len() { return Err(DataTooLarge) }
TooLarge(data, cap) == Len(data) > cap

StartIndex_leq(r, data) ==
    IF BufLen(r) - r.write_head_position <= Len(data)
    THEN 0
    ELSE r.write_head_position

\* reset the write head if there isn't enough space in front of it
StartIndex(r, data) ==
    IF BufLen(r) - r.write_head_position < Len(data)
    THEN 0
    ELSE r.write_head_position

\* write_slice.write_all(data)
CopyInto(buf, start_index, data) ==
    [i \in DOMAIN buf |->
        IF start_index <= i /\ i < start_index + Len(data)
        THEN data[i - start_index + 1]
        ELSE buf[i]]

Overlaps(other_item, start_index, end_index) ==
    /\ other_item.start_index < end_index
    /\ other_item.start_index + other_item.length > start_index

InvalidateOverwritten_anywhere(items, start_index, end_index, iters) ==
    SelectSeq(items, LAMBDA it : ~Overlaps(it, start_index, end_index))

\* for _ in 0..self.items.len(): pop the front item while it overlaps the
\* written range, stop at the first front item that does not
RECURSIVE InvalidateOverwritten(_, _, _, _)
InvalidateOverwritten(items, start_index, end_index, iters) ==
    IF iters = 0 \/ items = <<>>
    THEN items
    ELSE IF Overlaps(Head(items), start_index, end_index)
         THEN InvalidateOverwritten(Tail(items), start_index, end_index, iters - 1)
         ELSE items

NextIdOffset_keep(id_offset, popped) == id_offset

\* self.id_offset = self.id_offset.checked_add(1) for each popped item
\* (usize overflow panics; it is out of reach of any bounded run)
NextIdOffset(id_offset, popped) == id_offset + popped

\* RingBuffer::write: the ring after the call and the call's result
RbWrite(r, data, metadata) ==
    IF TooLarge(data, BufLen(r))
    THEN [ring |-> r, res |-> "DataTooLarge"]
    ELSE LET start_index == StartIndex(r, data)
             end_index == start_index + Len(data)
             kept == InvalidateOverwritten(r.items, start_index, end_index,
                                           Len(r.items))
             new_item == ItemData(start_index, Len(data), metadata)
         IN  [ring |-> [buf |-> CopyInto(r.buf, start_index, data),
                        items |-> Append(kept, new_item),
                        write_head_position |-> end_index,
                        id_offset |-> NextIdOffset(r.id_offset,
                                                   Len(r.items) - Len(kept))],
              res |-> "Ok"]

RbGet_leq(r, id) ==
    IF id <= r.id_offset \/ id >= r.id_offset + Len(r.items)
    THEN None
    ELSE LET item_data == r.items[id - r.id_offset + 1]
         IN  BufferItem(Slice(r.buf, item_data.start_index,
                              item_data.start_index + item_data.length),
                        item_data.metadata)

\* RingBuffer::get
RbGet(r, id) ==
    IF id < r.id_offset \/ id >= r.id_offset + Len(r.items)
    THEN None
    ELSE LET item_data == r.items[id - r.id_offset + 1]
         IN  BufferItem(Slice(r.buf, item_data.start_index,
                              item_data.start_index + item_data.length),
                        item_data.metadata)

\* RingBuffer::id_bounds
IdBounds(r) == [min |-> r.id_offset, max |-> r.id_offset + Len(r.items)]

-----------------------------------------------------------------------------
(* contiguous.rs: GrowableBuffer                                           *)

GrowableBufferNew == [buf |-> <<>>, items |-> <<>>]

\* GrowableBuffer::write
GbWrite_front(g, data, metadata) ==
    [buf |-> g.buf \o data,
     items |-> <<ItemData(Len(g.buf), Len(data), metadata)>> \o g.items]

GbWrite(g, data, metadata) ==
    [buf |-> g.buf \o data,
     items |-> Append(g.items, ItemData(Len(g.buf), Len(data), metadata))]

\* GrowableBuffer::get
GbGet(g, index) ==
    IF index >= Len(g.items)
    THEN None
    ELSE LET item == g.items[index + 1]
         IN  BufferItem(SubSeq(g.buf, item.start_index + 1,
                               item.start_index + item.length),
                        item.metadata)

\* for item in self.items.drain(..) { ring_buf.write(data, item.metadata)?; }
\* the ring and the result after the items from position k on were written;
\* the first failing write ends the loop
RECURSIVE DumpFrom(_, _, _)
DumpFrom(g, r, k) ==
    IF k > Len(g.items)
    THEN [ring |-> r, res |-> "Ok", done |-> Len(g.items)]
    ELSE LET item == g.items[k]
             data == SubSeq(g.buf, item.start_index + 1,
                            item.start_index + item.length)
             w == RbWrite(r, data, item.metadata)
         IN  IF w.res = "Ok"
             THEN DumpFrom(g, w.ring, k + 1)
             ELSE [ring |-> r, res |-> w.res, done |-> k - 1]

GbAfterDump_keepbuf(g, res) == [buf |-> g.buf, items |-> <<>>]

\* a failed dump that left the staged items in place
GbAfterDump_undrained(g, res) ==
    IF res = "Ok" THEN [buf |-> <<>>, items |-> <<>>] ELSE g

\* the stage after dump_into_ring_buffer: drain(..) empties items whether or
\* not the loop ran to its end; buf.clear() is reached only on Ok
GbAfterDump(g, res) ==
    [buf |-> IF res = "Ok" THEN <<>> ELSE g.buf, items |-> <<>>]

\* GrowableBuffer::dump_into_ring_buffer
GbDump(g, r) ==
    LET d == DumpFrom(g, r, 1)
    IN  [ring |-> d.ring, stage |-> GbAfterDump(g, d.res), res |-> d.res,
         done |-> d.done]

-----------------------------------------------------------------------------
(* Inputs and the history                                                  *)

\* the chunk of the given length passed to the write of ordinal seq
Chunk(length, seq) == [k \in 1..length |-> seq + 1]

Metadata(is_key, seq) == [is_key |-> is_key, seq |-> seq]

NoOp == [op |-> "none", len |-> 0, res |-> "Ok", fresh |-> FALSE]

\* the history after a ring write that returned Ok: the id of the new item is
\* id_bounds().max - 1 right after the write
Record(hist, r, data, metadata) ==
    Append(hist, [data |-> data, metadata |-> metadata,
                  id |-> IdBounds(r).max - 1])

\* the history after a dump: one record for each staged item the drain loop
\* wrote before it ended
RECURSIVE RecordDump(_, _, _, _)
RecordDump(hist, g, r, k) ==
    IF k > Len(g.items)
    THEN hist
    ELSE LET item == g.items[k]
             data == SubSeq(g.buf, item.start_index + 1,
                            item.start_index + item.length)
             w == RbWrite(r, data, item.metadata)
         IN  IF w.res = "Ok"
             THEN RecordDump(Record(hist, w.ring, data, item.metadata),
                             g, w.ring, k + 1)
             ELSE hist

\* Recorder::new and ThreadedCapturer::new: both worker threads at the top of
\* their loops, both frame buffers the zeroed frame, nothing sent, no guard held
PipeIdle(bf) ==
    /\ buffered_frames = bf
    /\ readers = 0
    /\ back = 0 /\ front = 0 /\ frontReaders = 0
    /\ capPc = "grab" /\ capRes = "Ok" /\ capChan = <<>> /\ ngrabs = 0
    /\ encPc = "recv" /\ encRes = "Skipped" /\ encChunk = None
    /\ encFrames = <<>> /\ encChan = <<>>
    /\ consPc = "idle" /\ last_chunk_id = 0 /\ cursor = 0 /\ id_max = 0
    /\ received = <<>> /\ gotNone = FALSE
    /\ ringWriter = "none" /\ dumpPos = 0
    /\ published = RingBufferNew(Cap)

\* Recorder::new has returned
HsIdle ==
    /\ newPc = "done" /\ wfPc = "run"
    /\ headers_dest = None /\ hdrLock = "none"
    /\ encHeaders = <<>> /\ headers = <<>>

\* the worker thread is in its loop and its owner holds the ThreadLoop
LoopIdle ==
    /\ tlPc = "try_iter" /\ toWorker = <<>>
    /\ tlOwner = "loop" /\ afterJoin = 0
    /\ dequeued = <<"StartLoop">>

\* no Recorder method has been called and the worker has sent nothing
RecIdle ==
    /\ LoopIdle
    /\ workChan = <<>> /\ nsent = 0 /\ workerAlive = TRUE
    /\ recPc = "idle" /\ recRet = None
    /\ consumed = <<>> /\ pendingAtCall = <<>> /\ ncalls = 0

\* the return destinations of two RecorderAsyncAdapter clones
Dests == {"a", "b"}

\* the tasks that call the adapter
Tasks == {1, 2}

\* the three suspending calls; each has its own ReturnDestination in every
\* RecorderAsyncAdapter
RecorderCalls == {"WaitForFrame", "WaitForNextFlush"}
CallKinds == RecorderCalls \cup {"data_buffer"}

DestIds == Dests \X CallKinds

\* Notify::new(): no permit stored, no task waiting
NotifyNew == [permit |-> FALSE, waiters |-> <<>>]

\* a task that is in no call, holding the adapter inst
TaskIdle(inst) == [pc |-> "idle", inst |-> inst, kind |-> "none", req |-> 0]

\* every return destination as ReturnDestination::new() makes it and no call
\* made
CallsIdle ==
    /\ return_dest = [d \in DestIds |-> None]
    /\ notify = [d \in DestIds |-> NotifyNew]
    /\ issued = <<>> /\ returns = <<>> /\ dropped = {}
    /\ data_buffer_rx = <<>>

\* no RecorderAsyncAdapter has been made
AdIdle ==
    /\ adPc = "stopped" /\ adResult = None /\ results = <<>>
    /\ recorder_rx = <<>> /\ txAlive = FALSE
    /\ flush_waiters = <<>> /\ deliveries = <<>> /\ nreqs = 0
    /\ adLimit = 0
    /\ CallsIdle
    /\ tasks = [t \in Tasks |-> TaskIdle("a")]

CallersIdle == HsIdle /\ RecIdle /\ AdIdle

\* the runs of SpecRing, SpecDump and SpecPipe follow MaxFrames capture
\* iterations
ExtIdle == grabLimit = MaxFrames /\ CallersIdle

-----------------------------------------------------------------------------
(* SpecRing: any sequence of RingBuffer::write calls on a new ring         *)

InitRing ==
    /\ ExtIdle
    /\ rb = RingBufferNew(Cap)
    /\ gb = GrowableBufferNew
    /\ written = <<>>
    /\ nops = 0
    /\ nstaged = 0
    /\ lastOp = NoOp
    /\ PipeIdle(0)

RingWrite(length, is_key) ==
    /\ nops < MaxWrites
    /\ LET metadata == Metadata(is_key, Len(written))
           data == Chunk(length, Len(written))
           w == RbWrite(rb, data, metadata)
       IN  /\ rb' = w.ring
           /\ written' = IF w.res = "Ok"
                         THEN Record(written, w.ring, data, metadata)
                         ELSE written
           /\ lastOp' = [op |-> "write", len |-> length, res |-> w.res,
                         fresh |-> rb = RingBufferNew(Cap)]
    /\ nops' = nops + 1
    /\ UNCHANGED <<gb, nstaged, pipeVars>>
    /\ UNCHANGED extVars

NextRing == \E length \in 0..(Cap + 1), is_key \in BOOLEAN : RingWrite(length, is_key)

SpecRing == InitRing /\ [][NextRing]_vars

-----------------------------------------------------------------------------
(* Claims about RingBuffer, checked under SpecRing                         *)

\* the bytes [start, start + length) an item occupies in the arena
Range(item) == item.start_index..(item.start_index + item.length - 1)

WriteCall == nops' = nops + 1 /\ lastOp'.op = "write"

SumLen(hist) ==
    LET RECURSIVE Sum(_)
        Sum(k) == IF k = 0 THEN 0 ELSE Len(hist[k].data) + Sum(k - 1)
    IN  Sum(Len(hist))

\* C1: after any sequence of writes no two live items occupy intersecting
\* byte ranges [start, start + length) of the arena.
CX_C1_NoOverlap ==
    \A i, j \in 1..Len(rb.items) :
        i < j => Range(rb.items[i]) \cap Range(rb.items[j]) = {}

\* C2: for every id of the live window get(id) returns exactly the bytes and
\* the metadata passed to the write that created that id.
CX_C2_GetReturnsWritten ==
    \A k \in 1..Len(written) :
        (IdBounds(rb).min <= written[k].id /\ written[k].id < IdBounds(rb).max)
            => RbGet(rb, written[k].id)
                 = BufferItem(written[k].data, written[k].metadata)

\* C3: id_bounds() = (min, max) has min <= max, get(id) is Some for every id
\* with min <= id < max and None for every id outside that range.
T_C3_BoundsMatchGet ==
    /\ IdBounds(rb).min <= IdBounds(rb).max
    /\ \A id \in 0..(MaxWrites + 1) :
          (IdBounds(rb).min <= id /\ id < IdBounds(rb).max)
              <=> (RbGet(rb, id) # None)

W_C3_EvictedAndLive ==
    /\ IdBounds(rb).min > 0
    /\ IdBounds(rb).max - IdBounds(rb).min >= 2

\* C4: the id given to each newly written item is strictly greater than every
\* id assigned by an earlier write, and an item that is live before and after
\* a step has the same id before and after it.
T_C4_IdsStable ==
    [][/\ \A k, l \in 1..Len(written') :
              k < l => written'[k].id < written'[l].id
       /\ \A i \in 1..Len(rb.items), j \in 1..Len(rb'.items) :
              rb.items[i].metadata.seq = rb'.items[j].metadata.seq
                  => rb.id_offset + i = rb'.id_offset + j]_vars

W_C4_WriteAfterEviction ==
    /\ lastOp.op = "write" /\ lastOp.res = "Ok"
    /\ rb.id_offset >= 2
    /\ Len(rb.items) >= 2

\* the ids assigned so far that get() no longer returns
Evicted == {written[k].id : k \in 1..Len(written)}
              \ {id \in 0..MaxWrites : RbGet(rb, id) # None}

\* C5: if an id has been evicted then every smaller id has been evicted too,
\* and the live items are the most recent writes, in the order written.
T_C5_PrefixEviction ==
    /\ \A e \in Evicted : \A k \in 1..Len(written) :
          written[k].id < e => written[k].id \in Evicted
    /\ Len(rb.items) <= Len(written)
    /\ \A i \in 1..Len(rb.items) :
          rb.items[i].metadata
              = written[Len(written) - Len(rb.items) + i].metadata

W_C5_TwoEvictedTailLive ==
    /\ Cardinality(Evicted) >= 2
    /\ Len(rb.items) >= 2
    /\ rb.items[1].start_index > rb.items[Len(rb.items)].start_index

\* C6: write returns DataTooLarge if and only if data.len > capacity, and then
\* arena, item queue, write head and id_offset are as before the call.
T_C6_TooLargeIffUnchanged ==
    [][WriteCall =>
        /\ (lastOp'.res = "DataTooLarge") <=> (lastOp'.len > Cap)
        /\ (lastOp'.res = "DataTooLarge") => rb' = rb]_vars

W_C6_RejectedOnUsedRing ==
    /\ lastOp.op = "write" /\ lastOp.res = "DataTooLarge"
    /\ Len(rb.items) >= 2 /\ rb.id_offset >= 1

\* C7: while the total byte volume of the writes made into a new ring is at
\* most the capacity, nothing is evicted: the i-th write is get(i) with its
\* own data and id_bounds() is (0, number of writes).
T_C7_FitsNoEviction ==
    (nops = Len(written) /\ SumLen(written) <= Cap) =>
        /\ IdBounds(rb) = [min |-> 0, max |-> nops]
        /\ \A i \in 0..(nops - 1) :
              RbGet(rb, i) = BufferItem(written[i + 1].data,
                                        written[i + 1].metadata)

W_C7_ArenaExactlyFull ==
    /\ nops = Len(written) /\ SumLen(written) = Cap
    /\ nops >= 3
    /\ lastOp.len >= 1

-----------------------------------------------------------------------------
(* SpecDump: chunks staged in a GrowableBuffer and dumped into a ring      *)

StageWrite(length, is_key) ==
    /\ nstaged < MaxStage
    /\ gb' = GbWrite(gb, Chunk(length, nstaged), Metadata(is_key, nstaged))
    /\ nstaged' = nstaged + 1
    /\ nops' = nops + 1
    /\ lastOp' = [op |-> "stage", len |-> length, res |-> "Ok",
                  fresh |-> rb = RingBufferNew(Cap)]
    /\ UNCHANGED <<rb, written, pipeVars>>
    /\ UNCHANGED extVars

StageDump ==
    /\ nops - nstaged < MaxDumps
    /\ LET d == GbDump(gb, rb)
       IN  /\ rb' = d.ring
           /\ gb' = d.stage
           /\ lastOp' = [op |-> "dump", len |-> Len(gb.items), res |-> d.res,
                         fresh |-> rb = RingBufferNew(Cap)]
    /\ written' = RecordDump(written, gb, rb, 1)
    /\ nops' = nops + 1
    /\ UNCHANGED <<nstaged, pipeVars>>
    /\ UNCHANGED extVars

NextDump ==
    \/ \E length \in 0..(Cap + 1), is_key \in BOOLEAN : StageWrite(length, is_key)
    \/ StageDump

SpecDump == InitRing /\ [][NextDump]_vars

DumpCall == nops' = nops + 1 /\ lastOp'.op = "dump"

\* C8: when the staged chunks together fit in a newly created ring, after
\* dump_into_ring_buffer returns Ok the ring's live window is the staged items
\* in staging order (same data and metadata, ids 0..n) and the stage is empty.
T_C8_DumpEqualsStage ==
    [][(/\ DumpCall
        /\ lastOp'.res = "Ok"
        /\ rb = RingBufferNew(Cap)
        /\ Len(gb.buf) <= Cap) =>
          /\ IdBounds(rb') = [min |-> 0, max |-> Len(gb.items)]
          /\ \A i \in 0..(Len(gb.items) - 1) : RbGet(rb', i) = GbGet(gb, i)
          /\ Len(gb'.items) = 0
          /\ gb'.buf = <<>>]_vars

W_C8_DumpedThree ==
    /\ lastOp.op = "dump" /\ lastOp.res = "Ok" /\ lastOp.fresh
    /\ lastOp.len = 3
    /\ SumLen(written) = Cap
    /\ Len(rb.items) = 3

-----------------------------------------------------------------------------
(* SpecPipe: capture worker, encoder worker and one consumer               *)
(* The ring-buffer call counters nops, nstaged and lastOp belong to        *)
(* SpecRing and SpecDump and stay as initialised here.                     *)

\* frame.rs: impl From<io::Error> for FrameError
FrameErrorFrom(kind) == IF kind = "WouldBlock" THEN "Skipped" ELSE "Error"

Swap_copy(b, f) == [back |-> b, front |-> b]

Swap_none(b, f) == [back |-> b, front |-> f]

\* multibuffer.rs: mem::swap(&mut self.back, front)
Swap(b, f) == [back |-> f, front |-> b]

ShouldFlush_leq(bf, write_buf_len) == bf <= write_buf_len

ShouldFlush_never(bf, write_buf_len) == FALSE

ShouldFlush_late(bf, write_buf_len) == bf + 1 < write_buf_len

\* record/mod.rs: if self.buffered_frames < self.data_buf.write_buf_len()
ShouldFlush(bf, write_buf_len) == bf < write_buf_len

StatusAfterWriteFlush_noTry(res) == "Flushed"

\* record/mod.rs: self.data_buf.write_flush(..)?; Ok(EncodeStatus::Flushed)
StatusAfterWriteFlush(res) ==
    IF res = "Ok" THEN "Flushed" ELSE "WriteDataError"

\* parking_lot RwLock::write() on the ring buffer is granted when no read
\* guard is held (encoded_buffer.rs: self.ring_buf.write())
RingWriteLockFree == readers = 0

RingReadLockFree_always == TRUE

\* RwLock::read() / read_arc() on the ring buffer is granted when the writer
\* lock is not held (encoded_buffer.rs: self.buf.read())
RingReadLockFree == ringWriter = "none"

FrontWriteLockFree_always == TRUE

\* RwLock::write() on the front frame (multibuffer.rs: self.front.write())
FrontWriteLockFree == frontReaders = 0

StartId_min(id_min, last) == id_min

\* lib.rs: let start_id = id_min.max(last_chunk_id)
StartId(id_min, last) == IF id_min >= last THEN id_min ELSE last

InitPipe ==
    /\ ExtIdle
    /\ rb = RingBufferNew(Cap)
    /\ gb = GrowableBufferNew
    /\ written = <<>>
    /\ nops = 0
    /\ nstaged = 0
    /\ lastOp = NoOp
    /\ \E bf \in 0..MaxBuffered : PipeIdle(bf)

\* CaptureWorker::update up to the swap: the display grab returns a frame,
\* WouldBlock or another io::Error; a frame is copied into the back buffer
CapGrab(outcome) ==
    /\ capPc = "grab"
    /\ ngrabs < grabLimit
    /\ ngrabs' = ngrabs + 1
    /\ IF outcome = "Ok"
       THEN /\ back' = ngrabs + 1
            /\ capPc' = "swap"
            /\ UNCHANGED capRes
       ELSE /\ capRes' = FrameErrorFrom(outcome)
            /\ capPc' = "send"
            /\ UNCHANGED back
    /\ UNCHANGED <<ringVars, buffered_frames, readers, frontReaders, capChan,
                   front, encVars, consVars>>
    /\ UNCHANGED extVars

\* MultiBuffer::swap: waits for the exclusive lock on the front frame
CapSwap ==
    /\ capPc = "swap"
    /\ FrontWriteLockFree
    /\ back' = Swap(back, front).back
    /\ front' = Swap(back, front).front
    /\ capRes' = "Ok"
    /\ capPc' = "send"
    /\ UNCHANGED <<ringVars, buffered_frames, readers, frontReaders, capChan,
                   ngrabs, encVars, consVars>>
    /\ UNCHANGED extVars

\* ThreadLoopWorker::run: self.tx.send(result)
CapSend ==
    /\ capPc = "send"
    /\ capChan' = Append(capChan, capRes)
    /\ capPc' = "grab"
    /\ UNCHANGED <<ringVars, buffered_frames, readers, frontReaders,
                   back, front, capRes, ngrabs, encVars, consVars>>
    /\ UNCHANGED extVars

EncRecv_stale ==
    /\ encPc = "recv"
    /\ capChan # <<>>
    /\ capChan' = Tail(capChan)
    /\ IF Head(capChan) = "Ok"
       THEN /\ encPc' = "front"
            /\ UNCHANGED <<encRes, encFrames>>
       ELSE /\ encRes' = IF Head(capChan) = "Skipped"
                         THEN "Skipped" ELSE "FrameError"
            /\ encFrames' = Append(encFrames, front)
            /\ encPc' = "send"
    /\ UNCHANGED <<ringVars, buffered_frames, readers, frontReaders, capVars,
                   encChunk, encChan, consVars, extVars>>

\* ThreadedCapturer::frame: work_recv()?, and RecordWorker::update's match on
\* the error: Skipped ends the iteration with Ok(Skipped), an io error with Err
EncRecv ==
    /\ encPc = "recv"
    /\ capChan # <<>>
    /\ capChan' = Tail(capChan)
    /\ IF Head(capChan) = "Ok"
       THEN /\ encPc' = "front"
            /\ UNCHANGED encRes
       ELSE /\ encRes' = IF Head(capChan) = "Skipped"
                         THEN "Skipped" ELSE "FrameError"
            /\ encPc' = "send"
    /\ UNCHANGED <<ringVars, buffered_frames, readers, frontReaders, capVars,
                   encChunk, encFrames, encChan, consVars>>
    /\ UNCHANGED extVars

\* ThreadedCapturer::frame: FrameGuard::new(self.frame_buf.front())
EncFront ==
    /\ encPc = "front"
    /\ frontReaders' = frontReaders + 1
    /\ encPc' = "drain"
    /\ UNCHANGED <<ringVars, buffered_frames, readers, capChan, capVars,
                   encRes, encChunk, encFrames, encChan, consVars>>
    /\ UNCHANGED extVars

\* a frame() that left the backlog in the channel
EncDrain_kept ==
    /\ encPc = "drain"
    /\ encPc' = "encode"
    /\ UNCHANGED <<ringVars, buffered_frames, readers, frontReaders, capChan,
                   capVars, encRes, encChunk, encFrames, encChan, consVars>>
    /\ UNCHANGED extVars

\* ThreadedCapturer::frame: the backlog is drained; the last non-Skipped
\* error in it is returned and the guard dropped, otherwise the guard is kept
EncDrain ==
    /\ encPc = "drain"
    /\ capChan' = <<>>
    /\ IF SelectSeq(capChan, LAMBDA m : m = "Error") # <<>>
       THEN /\ encRes' = "FrameError"
            /\ frontReaders' = frontReaders - 1
            /\ encPc' = "send"
       ELSE /\ encPc' = "encode"
            /\ UNCHANGED <<encRes, frontReaders>>
    /\ UNCHANGED <<ringVars, buffered_frames, readers, capVars,
                   encChunk, encFrames, encChan, consVars>>
    /\ UNCHANGED extVars

\* RecordWorker::update: encoder.encode fails
EncEncodeErr ==
    /\ encPc = "encode"
    /\ encFrames' = Append(encFrames, front)
    /\ encRes' = "EncodeError"
    /\ frontReaders' = frontReaders - 1
    /\ encPc' = "send"
    /\ UNCHANGED <<ringVars, buffered_frames, readers, capChan, capVars,
                   encChunk, encChan, consVars>>
    /\ UNCHANGED extVars

\* RecordWorker::update: encoder.encode returns a chunk; with buffered_frames
\* = 0 it goes to write_flush, otherwise it is staged and, when the stage is
\* longer than buffered_frames, flushed
EncEncode(length, is_key) ==
    /\ encPc = "encode"
    /\ encFrames' = Append(encFrames, front)
    /\ LET data == Chunk(length, Len(encFrames))
           metadata == Metadata(is_key, Len(encFrames))
       IN  IF buffered_frames = 0
           THEN /\ encChunk' = BufferItem(data, metadata)
                /\ encPc' = "flush"
                /\ UNCHANGED <<gb, encRes, frontReaders>>
           ELSE /\ gb' = GbWrite(gb, data, metadata)
                /\ UNCHANGED encChunk
                /\ IF ShouldFlush(buffered_frames, Len(gb'.items))
                   THEN /\ encPc' = "flush"
                        /\ UNCHANGED <<encRes, frontReaders>>
                   ELSE /\ encRes' = "PreBuffered"
                        /\ frontReaders' = frontReaders - 1
                        /\ encPc' = "send"
    /\ UNCHANGED <<rb, written, nops, nstaged, lastOp, buffered_frames,
                   readers, capChan, capVars, encChan, consVars>>
    /\ UNCHANGED extVars

\* EncodedBuffer::flush: the stage is dumped under the ring's writer lock
EncFlush ==
    /\ encPc = "flush"
    /\ RingWriteLockFree
    /\ LET d == GbDump(gb, rb)
       IN  /\ rb' = d.ring
           /\ gb' = d.stage
           /\ IF d.res # "Ok"
              THEN /\ encRes' = "WriteDataError"
                   /\ encChunk' = None
                   /\ frontReaders' = frontReaders - 1
                   /\ encPc' = "send"
              ELSE IF buffered_frames = 0
                   THEN /\ encPc' = "write"
                        /\ UNCHANGED <<encRes, encChunk, frontReaders>>
                   ELSE /\ encRes' = "Flushed"
                        /\ frontReaders' = frontReaders - 1
                        /\ encPc' = "send"
                        /\ UNCHANGED encChunk
    /\ written' = RecordDump(written, gb, rb, 1)
    /\ UNCHANGED <<nops, nstaged, lastOp, buffered_frames, readers, capChan,
                   capVars, encFrames, encChan, consVars>>
    /\ UNCHANGED extVars

\* EncodedBuffer::write_flush: self.ring_buf.write().write(data, metadata)
EncWrite ==
    /\ encPc = "write"
    /\ RingWriteLockFree
    /\ LET w == RbWrite(rb, encChunk.data, encChunk.metadata)
       IN  /\ rb' = w.ring
           /\ written' = IF w.res = "Ok"
                         THEN Record(written, w.ring, encChunk.data,
                                     encChunk.metadata)
                         ELSE written
           /\ encRes' = StatusAfterWriteFlush(w.res)
    /\ encChunk' = None
    /\ frontReaders' = frontReaders - 1
    /\ encPc' = "send"
    /\ UNCHANGED <<gb, nops, nstaged, lastOp, buffered_frames, readers,
                   capChan, capVars, encFrames, encChan, consVars>>
    /\ UNCHANGED extVars

\* ThreadLoopWorker::run: self.tx.send(result)
EncSend ==
    /\ encPc = "send"
    /\ encChan' = Append(encChan, encRes)
    /\ encPc' = "recv"
    /\ UNCHANGED <<ringVars, buffered_frames, readers, frontReaders, capChan,
                   capVars, encRes, encChunk, encFrames, consVars>>
    /\ UNCHANGED extVars

\* the consumer takes a read guard (EncodedBufferView::get / get_arc), reads
\* id_bounds() and starts at max(id_min, last_chunk_id)
ConsLock ==
    /\ consPc = "idle"
    /\ RingReadLockFree
    /\ readers' = readers + 1
    /\ cursor' = StartId(IdBounds(rb).min, last_chunk_id)
    /\ id_max' = IdBounds(rb).max
    /\ consPc' = "reading"
    /\ UNCHANGED <<ringVars, buffered_frames, frontReaders, capChan, capVars,
                   encVars, last_chunk_id, received, gotNone>>
    /\ UNCHANGED extVars

\* for i in start_id..id_max { data_buf.get(i) }
ConsRead ==
    /\ consPc = "reading"
    /\ cursor < id_max
    /\ IF RbGet(rb, cursor) = None
       THEN /\ gotNone' = TRUE
            /\ UNCHANGED received
       ELSE /\ received' = Append(received,
                                  [id |-> cursor,
                                   metadata |-> RbGet(rb, cursor).metadata])
            /\ UNCHANGED gotNone
    /\ cursor' = cursor + 1
    /\ UNCHANGED <<ringVars, buffered_frames, readers, frontReaders, capChan,
                   capVars, encVars, consPc, last_chunk_id, id_max>>
    /\ UNCHANGED extVars

\* last_chunk_id = id_max; the guard is dropped at the end of the loop body
ConsUnlock ==
    /\ consPc = "reading"
    /\ cursor >= id_max
    /\ last_chunk_id' = id_max
    /\ readers' = readers - 1
    /\ consPc' = "idle"
    /\ UNCHANGED <<ringVars, buffered_frames, frontReaders, capChan, capVars,
                   encVars, cursor, id_max, received, gotNone>>
    /\ UNCHANGED extVars

CapNext ==
    \/ \E outcome \in {"Ok", "WouldBlock", "Other"} : CapGrab(outcome)
    \/ CapSwap
    \/ CapSend

EncNext ==
    \/ EncRecv
    \/ EncFront
    \/ EncDrain
    \/ EncEncodeErr
    \/ \E length \in 0..(Cap + 1), is_key \in BOOLEAN : EncEncode(length, is_key)
    \/ EncFlush
    \/ EncWrite
    \/ EncSend

ConsNext == ConsLock \/ ConsRead \/ ConsUnlock

NextPipe == CapNext \/ EncNext \/ ConsNext

SpecPipe == InitPipe /\ [][NextPipe]_vars

-----------------------------------------------------------------------------
(* Claims about the consumer and the locks, checked under SpecPipe         *)

W_C9_ResumedPastEvicted ==
    /\ Len(received) >= 1
    /\ received[1].id > 0

\* the encoder worker is at the ring's writer lock
EncAtRingLock == encPc \in {"flush", "write"}

\* the encoder worker waits there for a read guard to be dropped
EncBlocked == EncAtRingLock /\ ~RingWriteLockFree

\* the capture worker waits at swap() for the front-frame guard to be dropped
CapBlocked == capPc = "swap" /\ ~FrontWriteLockFree

\* C10 as stated: while a consumer holds a read guard on the ring buffer the
\* encoder worker and the capture worker can still complete their iterations
\* (the capture worker is counted as held up by the consumer only when it
\* waits for the front-frame guard of an encoder worker that is itself
\* waiting for the consumer).
CX_C10_ReadersNeverBlock ==
    readers > 0 => (~EncBlocked /\ ~(CapBlocked /\ EncBlocked))

\* C10 as amended: a read guard holds up the encoder worker only at the
\* ring's writer lock, which the worker reaches only in an iteration that
\* publishes to the ring (buffered_frames = 0, or the stage longer than
\* buffered_frames), holding the front-frame guard meanwhile; iterations that
\* end Skipped, PreBuffered or with a capture or encode error never pass
\* through the writer lock; and the capture worker waits at swap() only for
\* an encoder worker that is in the middle of an iteration.
T_C10_BlockedOnlyWhenPublishing ==
    [][/\ EncAtRingLock' =>
             /\ buffered_frames' = 0 \/ Len(gb'.items) > buffered_frames'
             /\ frontReaders' > 0
       /\ CapBlocked' => encPc' \in {"drain", "encode", "flush", "write"}
       /\ (/\ encPc # "send" /\ encPc' = "send"
           /\ encRes' \in {"Skipped", "PreBuffered", "FrameError", "EncodeError"})
             => ~EncAtRingLock]_vars

W_C10_BothStagesBlocked ==
    /\ readers > 0
    /\ EncBlocked
    /\ CapBlocked

W_C10_DumpBlocked ==
    /\ EncBlocked
    /\ buffered_frames > 0

W_C10_PreBufferedUnderGuard ==
    /\ readers > 0
    /\ encPc = "send" /\ encRes = "PreBuffered"

-----------------------------------------------------------------------------
(* Claims about the encoder worker's statuses, checked under SpecPipe      *)

\* the statuses the encoder worker has returned so far: those sent, and the
\* one it is about to send
Statuses == IF encPc = "send" THEN Append(encChan, encRes) ELSE encChan

Count(seq, x) == Len(SelectSeq(seq, LAMBDA e : e = x))

\* C11: with buffered_frames = 0 no iteration returns PreBuffered (an
\* iteration that is not skipped and does not fail returns Flushed); when an
\* iteration returns Flushed the chunk it encoded is the newest item of the
\* ring; the ring has got exactly one item per Flushed iteration, in
\* iteration order.
T_C11_ZeroBufferFlushes ==
    buffered_frames = 0 =>
        /\ Count(Statuses, "PreBuffered") = 0
        /\ (encPc = "send" /\ encRes = "Flushed") =>
              /\ rb.items # <<>>
              /\ RbGet(rb, IdBounds(rb).max - 1) # None
              /\ RbGet(rb, IdBounds(rb).max - 1).metadata.seq
                     = Len(encFrames) - 1
        /\ Len(written) = Count(Statuses, "Flushed")
        /\ \A i, j \in 1..Len(written) :
              i < j => written[i].metadata.seq < written[j].metadata.seq

W_C11_FlushedAfterFailure ==
    /\ buffered_frames = 0
    /\ encPc = "send" /\ encRes = "Flushed"
    /\ Count(encChan, "WriteDataError") = 1
    /\ Len(written) = 1

-----------------------------------------------------------------------------
(* SpecStatus: the capture worker and the encoder worker with no consumer, *)
(* followed for MaxIters capture iterations; chunks are one byte long or   *)
(* one byte longer than the ring.                                          *)

InitStatus ==
    /\ grabLimit = MaxIters
    /\ CallersIdle
    /\ rb = RingBufferNew(Cap)
    /\ gb = GrowableBufferNew
    /\ written = <<>>
    /\ nops = 0
    /\ nstaged = 0
    /\ lastOp = NoOp
    /\ \E bf \in 0..MaxPreBuffer : PipeIdle(bf)

EncStatusNext ==
    \/ EncRecv
    \/ EncFront
    \/ EncDrain
    \/ EncEncodeErr
    \/ \E length \in {1, Cap + 1} : EncEncode(length, TRUE)
    \/ EncFlush
    \/ EncWrite
    \/ EncSend

NextStatus == CapNext \/ EncStatusNext

SpecStatus == InitStatus /\ [][NextStatus]_vars

-----------------------------------------------------------------------------
(* Claims about the status sequence, checked under SpecStatus              *)

\* number of PreBuffered among statuses i..j
PreBufferedIn(i, j) == Count(SubSeq(Statuses, i, j), "PreBuffered")

\* no status of the set stops among statuses i..j
NoneIn(i, j, stops) == \A n \in i..j : Statuses[n] \notin stops

\* C12 as stated: with buffered_frames = k > 0, any stretch of the status
\* sequence that contains no Flushed contains at most k PreBuffered, whatever
\* else (skipped or failed iterations) the stretch contains.
CX_C12_AtMostKBetweenFlushed ==
    buffered_frames > 0 =>
        \A i, j \in 1..Len(Statuses) :
            (i <= j /\ NoneIn(i, j, {"Flushed"}))
                => PreBufferedIn(i, j) <= buffered_frames

\* C12 as amended: with buffered_frames = k > 0, any stretch of the status
\* sequence that contains neither Flushed nor WriteDataError (a failed flush,
\* which empties the stage as well) contains at most k PreBuffered, for any
\* pattern of skipped iterations and of capture and encode errors.
T_C12_AtMostKBetweenFlushes ==
    buffered_frames > 0 =>
        \A i, j \in 1..Len(Statuses) :
            (i <= j /\ NoneIn(i, j, {"Flushed", "WriteDataError"}))
                => PreBufferedIn(i, j) <= buffered_frames

W_C12_FullStageWithSkip ==
    /\ buffered_frames = 2
    /\ Statuses = <<"PreBuffered", "Skipped", "PreBuffered", "Flushed">>

W_C12_FailedFlushRestarts ==
    /\ buffered_frames = 1
    /\ Statuses = <<"PreBuffered", "WriteDataError", "PreBuffered", "Flushed">>

IsPrefix(seq, of) ==
    /\ Len(seq) <= Len(of)
    /\ \A n \in 1..Len(seq) : seq[n] = of[n]

\* every iteration so far captured, encoded and published successfully
AllSucceeded == \A n \in 1..Len(Statuses) :
                    Statuses[n] \in {"PreBuffered", "Flushed"}

FirstFour == SubSeq(Statuses, 1, IF Len(Statuses) < 4 THEN Len(Statuses) ELSE 4)

\* C13 as stated: with buffered_frames = 2 and every iteration succeeding the
\* first four statuses are PreBuffered, PreBuffered, PreBuffered, Flushed.
CX_C13_ThreePreBuffered ==
    (buffered_frames = 2 /\ AllSucceeded) =>
        IsPrefix(FirstFour,
                 <<"PreBuffered", "PreBuffered", "PreBuffered", "Flushed">>)

\* C13 as amended: with buffered_frames = 2 and every iteration succeeding the
\* first four statuses are PreBuffered, PreBuffered, Flushed, PreBuffered:
\* the third chunk makes the stage longer than buffered_frames.
T_C13_TwoPreBuffered ==
    (buffered_frames = 2 /\ AllSucceeded) =>
        IsPrefix(FirstFour,
                 <<"PreBuffered", "PreBuffered", "Flushed", "PreBuffered">>)

W_C13_FourStatuses ==
    /\ buffered_frames = 2
    /\ AllSucceeded
    /\ Len(encChan) = 4
    /\ Len(rb.items) = 3 /\ Len(gb.items) = 1

\* an encoder-worker iteration ends: its status is decided
IterationEnds == encPc # "send" /\ encPc' = "send"

\* C14: an iteration that returns Skipped ends in the step that received the
\* capture result, so the encoder was not called in it, and that step leaves
\* the staging buffer, the ring buffer and the list of encoded frames as
\* they were.
T_C14_SkippedTouchesNothing ==
    [][(IterationEnds /\ encRes' = "Skipped") =>
           /\ encPc = "recv"
           /\ encFrames' = encFrames
           /\ gb' = gb
           /\ rb' = rb
           /\ written' = written]_vars

W_C14_SkippedWithStageAndRing ==
    /\ encPc = "send" /\ encRes = "Skipped"
    /\ Len(gb.items) > 0
    /\ Len(rb.items) > 0

\* MultiBuffer::swap() returns
SwapReturns == capPc = "swap" /\ capPc' # "swap"

\* C15: when swap() returns, the producer's back buffer holds what the front
\* slot held before the call and the front slot holds what the back buffer
\* held; the guards on the front slot, the channels, the encoder worker, the
\* staging buffer and the ring buffer are as before.
T_C15_SwapExchanges ==
    [][SwapReturns =>
           /\ back' = front
           /\ front' = back
           /\ UNCHANGED <<ringVars, buffered_frames, readers, frontReaders,
                          capChan, ngrabs, encVars, consVars>>]_vars

W_C15_SecondSwapDone ==
    /\ capPc = "send" /\ capRes = "Ok"
    /\ ngrabs = 2
    /\ front = 2
    /\ back = 1

\* C16: swap() returns only when no reader holds a front guard; while a
\* front guard is held from one state to the next the front frame is the
\* same; the frame seen under a guard, and every frame handed to the
\* encoder, is one whole frame the producer grabbed and published by a swap
\* (frames are numbered by their grab, 0 is the zeroed initial buffer).
T_C16_FrontStableUnderGuard ==
    [][/\ SwapReturns => frontReaders = 0
       /\ (frontReaders > 0 /\ frontReaders' > 0) => front' = front
       /\ frontReaders' > 0 => front' \in 1..ngrabs'
       /\ (encFrames' # encFrames) =>
             /\ frontReaders > 0
             /\ encFrames' = Append(encFrames, front)
             /\ front \in 1..ngrabs]_vars

W_C16_SwapWaitsForReader ==
    /\ frontReaders > 0
    /\ encPc = "encode"
    /\ capPc = "swap"
    /\ back > front
    /\ Len(encFrames) > 0

-----------------------------------------------------------------------------
(* SpecLock: the pipeline of SpecPipe with the ring's writer lock followed *)
(* step by step: the encoder worker takes the lock, the drain loop of      *)
(* dump_into_ring_buffer writes one staged item per step, and the lock is  *)
(* released when the call returns.  Chunks are one byte long or one byte   *)
(* longer than the ring.                                                   *)

InitLock ==
    /\ grabLimit = MaxLockIters
    /\ CallersIdle
    /\ rb = RingBufferNew(Cap)
    /\ gb = GrowableBufferNew
    /\ written = <<>>
    /\ nops = 0
    /\ nstaged = 0
    /\ lastOp = NoOp
    /\ \E bf \in 0..MaxBuffered : PipeIdle(bf)

lockFrame == <<nops, nstaged, lastOp, buffered_frames, readers, capChan,
               capVars, consVars, grabLimit, hsVars, recVars, adVars,
               callVars, loopVars>>

\* let data = &self.buf[item.start_index..end_index];
\* ring_buf.write(data, item.metadata) for the k-th staged item
DumpItemWrite(g, r, k) ==
    LET item == g.items[k]
    IN  RbWrite(r, SubSeq(g.buf, item.start_index + 1,
                          item.start_index + item.length), item.metadata)

\* the result of the drain loop when it has reached the k-th item
DumpResultAt(g, r, k) ==
    IF k > Len(g.items) THEN "Ok" ELSE DumpItemWrite(g, r, k).res

\* self.ring_buf.write() in flush and in write_flush: the writer lock is
\* granted
RingLockWrite ==
    /\ encPc \in {"flush", "write"}
    /\ ringWriter = "none"
    /\ RingWriteLockFree
    /\ ringWriter' = encPc
    /\ dumpPos' = IF encPc = "flush" THEN 1 ELSE 0
    /\ UNCHANGED <<rb, gb, written, lockFrame, frontReaders, encVars,
                   published>>

\* dump_into_ring_buffer: one turn of the drain loop whose write succeeds
DumpItem ==
    /\ ringWriter = "flush"
    /\ dumpPos <= Len(gb.items)
    /\ LET w == DumpItemWrite(gb, rb, dumpPos)
           item == gb.items[dumpPos]
       IN  /\ w.res = "Ok"
           /\ rb' = w.ring
           /\ written' = Record(written, w.ring,
                                SubSeq(gb.buf, item.start_index + 1,
                                       item.start_index + item.length),
                                item.metadata)
    /\ dumpPos' = dumpPos + 1
    /\ UNCHANGED <<gb, lockFrame, frontReaders, encVars, ringWriter,
                   published>>

\* dump_into_ring_buffer returns, at the end of the drain loop or with the
\* error of the first failing write, and flush drops the writer lock; then
\* RecordWorker::update goes on as after EncodedBuffer::flush
DumpReturn ==
    /\ ringWriter = "flush"
    /\ LET res == DumpResultAt(gb, rb, dumpPos)
       IN  /\ dumpPos <= Len(gb.items) => res # "Ok"
           /\ gb' = GbAfterDump(gb, res)
           /\ IF res # "Ok"
              THEN /\ encRes' = "WriteDataError"
                   /\ encChunk' = None
                   /\ frontReaders' = frontReaders - 1
                   /\ encPc' = "send"
              ELSE IF buffered_frames = 0
                   THEN /\ encPc' = "write"
                        /\ UNCHANGED <<encRes, encChunk, frontReaders>>
                   ELSE /\ encRes' = "Flushed"
                        /\ frontReaders' = frontReaders - 1
                        /\ encPc' = "send"
                        /\ UNCHANGED encChunk
    /\ ringWriter' = "none"
    /\ dumpPos' = 0
    /\ published' = rb
    /\ UNCHANGED <<rb, written, lockFrame, encFrames, encChan>>

\* write_flush: self.ring_buf.write().write(data, metadata)?; the lock is
\* dropped at the end of the statement
RingWriteOne ==
    /\ ringWriter = "write"
    /\ LET w == RbWrite(rb, encChunk.data, encChunk.metadata)
       IN  /\ rb' = w.ring
           /\ published' = w.ring
           /\ written' = IF w.res = "Ok"
                         THEN Record(written, w.ring, encChunk.data,
                                     encChunk.metadata)
                         ELSE written
           /\ encRes' = StatusAfterWriteFlush(w.res)
    /\ encChunk' = None
    /\ frontReaders' = frontReaders - 1
    /\ encPc' = "send"
    /\ ringWriter' = "none"
    /\ UNCHANGED <<gb, lockFrame, encFrames, encChan, dumpPos>>

EncLockNext ==
    \/ EncRecv
    \/ EncFront
    \/ EncDrain
    \/ EncEncodeErr
    \/ \E length \in {1, Cap + 1} : EncEncode(length, TRUE)
    \/ RingLockWrite
    \/ DumpItem
    \/ DumpReturn
    \/ RingWriteOne
    \/ EncSend

NextLock == CapNext \/ EncLockNext \/ ConsNext

SpecLock == InitLock /\ [][NextLock]_vars

-----------------------------------------------------------------------------
(* Claims about the ring's lock, checked under SpecLock                    *)

\* the writer lock is held
WriterHeld == ringWriter # "none"

\* C33: the ring changes only in steps of the encoder worker made while it
\* holds the writer lock; no read guard is held while the writer lock is
\* held; one hold of the writer lock covers one write (the lock is released
\* by the step that writes) or one dump (only staged items are written, in
\* stage order, and nothing is encoded or staged meanwhile); so while a read
\* guard is held the ring is as the last completed write or dump left it.
T_C33_RingChangesUnderWriterLock ==
    /\ [][rb' # rb => WriterHeld /\ readers = 0 /\ readers' = 0]_vars
    /\ [](WriterHeld => readers = 0)
    /\ [](WriterHeld => encPc = ringWriter)
    /\ [][ringWriter = "write" /\ ringWriter' = "write" => rb' = rb]_vars
    /\ [][ringWriter = "write" /\ rb' # rb => ringWriter' = "none"]_vars
    /\ [][ringWriter = "flush" /\ ringWriter' = "flush"
            => /\ gb' = gb /\ encFrames' = encFrames
               /\ \/ rb' = rb /\ dumpPos' = dumpPos
                  \/ /\ rb' = DumpItemWrite(gb, rb, dumpPos).ring
                     /\ dumpPos' = dumpPos + 1]_vars
    /\ [][~WriterHeld /\ WriterHeld' => rb' = rb /\ rb = published]_vars
    /\ [](readers > 0 => rb = published /\ dumpPos = 0)
    /\ [](~WriterHeld => rb = published)

\* a dump of two staged chunks is half done, the first is in the ring and
\* the second is not, and a consumer is about to take a read guard
W_C33_DumpHalfDone ==
    /\ ringWriter = "flush"
    /\ dumpPos = 2
    /\ Len(gb.items) = 2
    /\ rb # published
    /\ consPc = "idle"

\* a consumer reads under its guard the two chunks of a completed flush
\* while the encoder worker waits for the writer lock
W_C33_ReaderHoldsWriterWaits ==
    /\ readers = 1
    /\ Len(received) = 2
    /\ encPc = "flush"
    /\ ringWriter = "none"

\* no iteration so far ended with an error
NoErrors ==
    \A n \in 1..Len(Statuses) :
        Statuses[n] \notin {"FrameError", "EncodeError", "WriteDataError"}

\* the encoder worker is between two iterations, or in one that has not
\* staged its chunk yet
BetweenStaging == encPc \in {"send", "recv", "front", "drain", "encode"}

\* the step in which an iteration's flush returns Ok
FlushReturnsOk == encPc = "flush" /\ encPc' = "send" /\ encRes' = "Flushed"

W_C34_StageFullBetweenIterations ==
    /\ buffered_frames = 1
    /\ NoErrors
    /\ encPc = "recv"
    /\ Len(gb.items) = 1
    /\ IdBounds(rb).max = 2

-----------------------------------------------------------------------------
(* A failing dump, checked under SpecDump                                  *)

\* the ring after the first n staged items were written to it one by one
RECURSIVE WriteFirst(_, _, _)
WriteFirst(g, r, n) ==
    IF n = 0 THEN r ELSE DumpItemWrite(g, WriteFirst(g, r, n - 1), n).ring

\* the staged items longer than the ring's arena
TooLongStaged == {j \in 1..Len(gb.items) : gb.items[j].length > Cap}

\* the first of them
FirstTooLong == CHOOSE j \in TooLongStaged : \A i \in TooLongStaged : j <= i

\* C35: a dump fails exactly when some staged chunk is longer than the ring;
\* with j the first such chunk, the ring afterwards is the ring after the
\* writes of the staged chunks 1..j-1, in order, and nothing else: the
\* successful writes of the call are those j-1 chunks (the last of them is
\* the newest live item), none of the chunks j.. is in the ring, and the
\* stage has len() = 0 and holds no item.
T_C35_FailedDumpKeepsPrefix ==
    [][DumpCall =>
        /\ lastOp'.res # "Ok" <=> TooLongStaged # {}
        /\ lastOp'.res # "Ok" =>
            /\ lastOp'.res = "DataTooLarge"
            /\ rb' = WriteFirst(gb, rb, FirstTooLong - 1)
            /\ Len(written') = Len(written) + FirstTooLong - 1
            /\ \A n \in 1..(FirstTooLong - 1) :
                  /\ written'[Len(written) + n].metadata
                        = gb.items[n].metadata
                  /\ written'[Len(written) + n].data = GbGet(gb, n - 1).data
            /\ FirstTooLong > 1 =>
                  RbGet(rb', IdBounds(rb').max - 1)
                    = GbGet(gb, FirstTooLong - 2)
            /\ \A n \in FirstTooLong..Len(gb.items) :
                  \A m \in 1..Len(rb'.items) :
                      rb'.items[m].metadata # gb.items[n].metadata
            /\ Len(gb'.items) = 0
            /\ GbGet(gb', 0) = None]_vars

\* three chunks staged, the second too long: the dump wrote the first and
\* dropped the other two, the last of which would have fitted
W_C35_FailedAtSecondOfThree ==
    /\ lastOp.op = "dump" /\ lastOp.res = "DataTooLarge"
    /\ lastOp.len = 3
    /\ Len(written) = 1
    /\ Len(rb.items) = 1
    /\ gb.items = <<>>
    /\ Len(gb.buf) = Cap + 3

\* two chunks staged after an earlier dump, the second too long: the ring
\* holds the chunk of the earlier dump and the first of this one
W_C35_FailedOnUsedRing ==
    /\ lastOp.op = "dump" /\ lastOp.res = "DataTooLarge"
    /\ lastOp.len = 2
    /\ ~lastOp.fresh
    /\ Len(rb.items) = 2
    /\ gb.items = <<>>

\* the first staged chunk was too long: nothing was written
W_C35_FailedAtFirst ==
    /\ lastOp.op = "dump" /\ lastOp.res = "DataTooLarge"
    /\ lastOp.len = 2
    /\ written = <<>>
    /\ rb = RingBufferNew(Cap)
    /\ gb.items = <<>>

-----------------------------------------------------------------------------
(* SpecHeaders: Recorder::new and the worker thread it spawns, up to the   *)
(* return of the constructor.  headers_dest is a parking_lot Mutex with a  *)
(* parking_lot Condvar (no spurious wake-ups).                             *)

\* the header blocks an encoder may give: byte strings up to MaxHeaderLen
HeaderBlocks ==
    UNION {[1..n -> {0, 1}] : n \in 0..MaxHeaderLen}

\* the pipeline's own state while the constructor runs: nothing captured
PipeNotStarted ==
    /\ grabLimit = 0
    /\ rb = RingBufferNew(Cap)
    /\ gb = GrowableBufferNew
    /\ written = <<>>
    /\ nops = 0
    /\ nstaged = 0
    /\ lastOp = NoOp
    /\ PipeIdle(0)

InitHeaders ==
    /\ PipeNotStarted
    /\ newPc = "spawn" /\ wfPc = "unborn"
    /\ headers_dest = None /\ hdrLock = "none"
    /\ encHeaders = <<>> /\ headers = <<>>
    /\ RecIdle
    /\ AdIdle

hsFrame == <<ringVars, pipeVars, grabLimit, recVars, adVars, callVars,
             loopVars, lockVars>>

\* ThreadLoop::new(worker_factory, ..): the thread is spawned
NewSpawn ==
    /\ newPc = "spawn"
    /\ wfPc' = "factory"
    /\ newPc' = "lock"
    /\ UNCHANGED <<hsFrame, headers_dest, hdrLock, encHeaders, headers>>

\* let mut headers = headers_lock.lock()
NewLock ==
    /\ newPc = "lock"
    /\ hdrLock = "none"
    /\ hdrLock' = "new"
    /\ newPc' = "check"
    /\ UNCHANGED <<hsFrame, wfPc, headers_dest, encHeaders, headers>>

\* match headers.take(): Some(h) => h, and Self is returned (the guard is
\* dropped); None => condvar.wait(&mut headers) unlocks and parks
NewCheck ==
    /\ newPc = "check"
    /\ hdrLock' = "none"
    /\ IF headers_dest # None
       THEN /\ headers' = headers_dest.some
            /\ headers_dest' = None
            /\ newPc' = "done"
       ELSE /\ newPc' = "waiting"
            /\ UNCHANGED <<headers, headers_dest>>
    /\ UNCHANGED <<hsFrame, wfPc, encHeaders>>

\* condvar.wait returns: the mutex is taken again, headers.take().unwrap()
NewWoken ==
    /\ newPc = "woken"
    /\ hdrLock = "none"
    /\ IF headers_dest # None
       THEN /\ headers' = headers_dest.some
            /\ headers_dest' = None
            /\ newPc' = "done"
       ELSE /\ newPc' = "panicked"
            /\ UNCHANGED <<headers, headers_dest>>
    /\ UNCHANGED <<hsFrame, wfPc, hdrLock, encHeaders>>

\* let mut encoder = encoder_factory()
FactoryReturns ==
    /\ wfPc = "factory"
    /\ wfPc' = "headers"
    /\ UNCHANGED <<hsFrame, newPc, headers_dest, hdrLock, encHeaders, headers>>

\* encoder.headers() gives the header block
HeadersOk(h) ==
    /\ wfPc = "headers"
    /\ encHeaders' = h
    /\ wfPc' = "lock"
    /\ UNCHANGED <<hsFrame, newPc, headers_dest, hdrLock, headers>>

\* encoder.headers() fails: .expect("Couldn't get x264 headers") panics
HeadersErr ==
    /\ wfPc = "headers"
    /\ wfPc' = "panicked"
    /\ UNCHANGED <<hsFrame, newPc, headers_dest, hdrLock, encHeaders, headers>>

\* headers_dest.lock()
WorkerLock ==
    /\ wfPc = "lock"
    /\ hdrLock = "none"
    /\ hdrLock' = "worker"
    /\ wfPc' = "store"
    /\ UNCHANGED <<hsFrame, newPc, headers_dest, encHeaders, headers>>

\* *guard = Some(headers.into_boxed_slice()); the guard is dropped
WorkerStore ==
    /\ wfPc = "store"
    /\ headers_dest' = [some |-> encHeaders]
    /\ hdrLock' = "none"
    /\ wfPc' = "notify"
    /\ UNCHANGED <<hsFrame, newPc, encHeaders, headers>>

NotifyOne_lost(pc) == pc

\* Condvar::notify_one: a thread parked in wait is woken, otherwise nothing
NotifyOne(pc) == IF pc = "waiting" THEN "woken" ELSE pc

\* condvar.notify_one(); the RecordWorker is built and the loop runs
WorkerNotify ==
    /\ wfPc = "notify"
    /\ newPc' = NotifyOne(newPc)
    /\ wfPc' = "run"
    /\ UNCHANGED <<hsFrame, headers_dest, hdrLock, encHeaders, headers>>

NewNext == NewSpawn \/ NewLock \/ NewCheck \/ NewWoken

WorkerHeaders == (\E h \in HeaderBlocks : HeadersOk(h)) \/ HeadersErr

WorkerFactoryNext ==
    \/ FactoryReturns
    \/ WorkerHeaders
    \/ WorkerLock
    \/ WorkerStore
    \/ WorkerNotify

NextHeaders == NewNext \/ WorkerFactoryNext

\* both threads keep running; the encoder factory need not return
FairHeaders ==
    /\ WF_vars(NewNext)
    /\ WF_vars(WorkerHeaders)
    /\ WF_vars(WorkerLock \/ WorkerStore \/ WorkerNotify)

SpecHeaders == InitHeaders /\ [][NextHeaders]_vars /\ FairHeaders

-----------------------------------------------------------------------------
(* Claim about the headers handshake, checked under SpecHeaders            *)

\* Recorder::new has returned only after the worker stored the headers, with
\* exactly the bytes the encoder gave, and its unwrap() never fails
HandshakeSafe ==
    /\ newPc # "panicked"
    /\ newPc = "done" =>
          /\ wfPc \in {"notify", "run"}
          /\ headers = encHeaders
          /\ headers_dest = None

\* C17 as stated: Recorder::new does not return before the worker thread has
\* stored the headers, it returns those bytes, and whenever the encoder
\* factory returns the constructor eventually returns.
CX_C17_ReleasedIfFactoryReturns ==
    /\ []HandshakeSafe
    /\ (<>(wfPc \notin {"unborn", "factory"})) => <>(newPc = "done")

\* C17 as amended: Recorder::new does not return before the worker thread has
\* stored the headers, it returns those bytes, and whenever the encoder
\* factory returns and encoder.headers() succeeds the constructor
\* eventually returns, under every interleaving of the two threads.
T_C17_ReleasedIfHeadersProduced ==
    /\ []HandshakeSafe
    /\ (<>(wfPc = "lock")) => <>(newPc = "done")

W_C17_WokenWithHeadersStored ==
    /\ newPc = "woken"
    /\ wfPc = "run"
    /\ headers_dest # None
    /\ Len(headers_dest.some) = MaxHeaderLen

W_C17_StoredBeforeLock ==
    /\ newPc = "check"
    /\ wfPc = "notify"
    /\ headers_dest # None

-----------------------------------------------------------------------------
(* SpecRecorder: the owner of a Recorder calling block_until_next_flush    *)
(* and data_buffer while the worker thread sends results.  ThreadLoop is   *)
(* generic in its worker: a result is any EncodeStatus or RecordError, and *)
(* the worker thread may panic, which drops its Sender.                    *)

EncodeStatuses == {"Skipped", "PreBuffered", "Flushed"}

RecordErrors == {"FrameError", "EncodeError", "WriteDataError"}

WorkResults == EncodeStatuses \cup RecordErrors

InitRecorder ==
    /\ PipeNotStarted
    /\ HsIdle
    /\ RecIdle
    /\ AdIdle

recFrame == <<ringVars, buffered_frames, frontReaders, capChan, capVars,
              encVars, consVars, grabLimit, hsVars, adVars, callVars,
              loopVars, lockVars>>

\* ThreadLoopWorker::run: let result = self.worker.work(); self.tx.send(result)
WorkerSends(result) ==
    /\ workerAlive
    /\ nsent < MaxResults
    /\ workChan' = Append(workChan, result)
    /\ nsent' = nsent + 1
    /\ UNCHANGED <<recFrame, readers, workerAlive, recPc, recRet, consumed,
                   pendingAtCall, ncalls>>

\* the worker thread panics (an unwrap() in work() or in run() fails): the
\* Sender is dropped, results already sent stay in the channel
WorkerPanics ==
    /\ workerAlive
    /\ workerAlive' = FALSE
    /\ UNCHANGED <<recFrame, readers, workChan, nsent, recPc, recRet,
                   consumed, pendingAtCall, ncalls>>

\* Recorder::block_until_next_flush is called
CallBlock ==
    /\ recPc = "idle"
    /\ ncalls < MaxCalls
    /\ ncalls' = ncalls + 1
    /\ recPc' = "block"
    /\ recRet' = None
    /\ consumed' = <<>>
    /\ pendingAtCall' = workChan
    /\ UNCHANGED <<recFrame, readers, workChan, nsent, workerAlive>>

BlockOutcome_first(result) ==
    IF result \in RecordErrors THEN [err |-> result] ELSE [ok |-> TRUE]

\* match i? { EncodeStatus::Flushed => return Ok(()), _ => () }
BlockOutcome(result) ==
    IF result \in RecordErrors THEN [err |-> result]
    ELSE IF result = "Flushed" THEN [ok |-> TRUE]
    ELSE None

\* block_until_next_flush: work_iter() yields the next result
BlockRecv ==
    /\ recPc = "block"
    /\ workChan # <<>>
    /\ workChan' = Tail(workChan)
    /\ consumed' = Append(consumed, Head(workChan))
    /\ IF BlockOutcome(Head(workChan)) # None
       THEN /\ recRet' = [call |-> "block_until_next_flush",
                          val |-> BlockOutcome(Head(workChan))]
            /\ recPc' = "idle"
       ELSE UNCHANGED <<recRet, recPc>>
    /\ UNCHANGED <<recFrame, readers, nsent, workerAlive, pendingAtCall,
                   ncalls>>

\* block_until_next_flush: work_iter() ends (the channel is empty and the
\* Sender is gone); the function falls through to its final Ok(())
BlockDisconnected ==
    /\ recPc = "block"
    /\ workChan = <<>>
    /\ ~workerAlive
    /\ recRet' = [call |-> "block_until_next_flush", val |-> [ok |-> TRUE]]
    /\ recPc' = "idle"
    /\ UNCHANGED <<recFrame, readers, workChan, nsent, workerAlive, consumed,
                   pendingAtCall, ncalls>>

\* Recorder::data_buffer is called
CallDataBuffer ==
    /\ recPc = "idle"
    /\ ncalls < MaxCalls
    /\ ncalls' = ncalls + 1
    /\ recPc' = "drain"
    /\ recRet' = None
    /\ consumed' = <<>>
    /\ pendingAtCall' = workChan
    /\ UNCHANGED <<recFrame, readers, workChan, nsent, workerAlive>>

DrainStops_never(result) == FALSE

\* for i in self.thread_loop.work_try_iter() { i?; }
DrainStops(result) == result \in RecordErrors

\* data_buffer: work_try_iter() yields a result
DrainRecv ==
    /\ recPc = "drain"
    /\ workChan # <<>>
    /\ workChan' = Tail(workChan)
    /\ consumed' = Append(consumed, Head(workChan))
    /\ IF DrainStops(Head(workChan))
       THEN /\ recRet' = [call |-> "data_buffer",
                          val |-> [err |-> Head(workChan)]]
            /\ recPc' = "idle"
       ELSE UNCHANGED <<recRet, recPc>>
    /\ UNCHANGED <<recFrame, readers, nsent, workerAlive, pendingAtCall,
                   ncalls>>

\* data_buffer: work_try_iter() ends (nothing pending, or disconnected);
\* Ok(self.data_buf.get()) takes a read guard on the ring buffer
DrainEmpty ==
    /\ recPc = "drain"
    /\ workChan = <<>>
    /\ readers' = readers + 1
    /\ recRet' = [call |-> "data_buffer", val |-> [guard |-> TRUE]]
    /\ recPc' = "holding"
    /\ UNCHANGED <<recFrame, workChan, nsent, workerAlive, consumed,
                   pendingAtCall, ncalls>>

\* the owner drops the EncodedDataGuard
DropGuard ==
    /\ recPc = "holding"
    /\ readers' = readers - 1
    /\ recPc' = "idle"
    /\ UNCHANGED <<recFrame, workChan, nsent, workerAlive, recRet, consumed,
                   pendingAtCall, ncalls>>

WorkerThreadNext ==
    \/ \E result \in WorkResults : WorkerSends(result)
    \/ WorkerPanics

OwnerNext ==
    \/ CallBlock
    \/ BlockRecv
    \/ BlockDisconnected
    \/ CallDataBuffer
    \/ DrainRecv
    \/ DrainEmpty
    \/ DropGuard

NextRecorder == WorkerThreadNext \/ OwnerNext

SpecRecorder == InitRecorder /\ [][NextRecorder]_vars

-----------------------------------------------------------------------------
(* Claims about the Recorder's methods, checked under SpecRecorder         *)

\* the last call made was `call` and it has returned
Returned(call) ==
    /\ recPc \in {"idle", "holding"}
    /\ recRet # None
    /\ recRet.call = call

ReturnedOk == "ok" \in DOMAIN recRet.val

ReturnedErr == "err" \in DOMAIN recRet.val

ReturnedGuard == "guard" \in DOMAIN recRet.val

\* all results the call received before its last one were discarded statuses
DiscardedBeforeLast ==
    \A n \in 1..(Len(consumed) - 1) : consumed[n] \in {"Skipped", "PreBuffered"}

\* C18 as stated: block_until_next_flush returns Ok only after it received a
\* Flushed result, having received only Skipped and PreBuffered results
\* before it; it returns Err with the first error result it received.
CX_C18_OkOnlyAfterFlushed ==
    Returned("block_until_next_flush") =>
        /\ consumed # <<>>
        /\ DiscardedBeforeLast
        /\ ReturnedOk => consumed[Len(consumed)] = "Flushed"
        /\ ReturnedErr => recRet.val.err = consumed[Len(consumed)]
        /\ ~ReturnedOk => consumed[Len(consumed)] \in RecordErrors

\* C18 while the worker thread lives: the same statement, except that after
\* the worker thread is gone and the channel is empty the call returns Ok
\* having received Skipped and PreBuffered results only.
T_C18_OkWithoutFlushedOnlyIfWorkerGone ==
    Returned("block_until_next_flush") =>
        IF ReturnedOk /\ (consumed = <<>> \/ consumed[Len(consumed)] # "Flushed")
        THEN /\ ~workerAlive
             /\ \A n \in 1..Len(consumed) :
                    consumed[n] \in {"Skipped", "PreBuffered"}
        ELSE /\ consumed # <<>>
             /\ DiscardedBeforeLast
             /\ ReturnedErr => recRet.val.err = consumed[Len(consumed)]
             /\ ~ReturnedOk => consumed[Len(consumed)] \in RecordErrors

W_C18_OkAfterDiscards ==
    /\ Returned("block_until_next_flush")
    /\ ReturnedOk
    /\ consumed = <<"Skipped", "PreBuffered", "Flushed">>

\* the first error among the results of a sequence, or None
RECURSIVE FirstError(_)
FirstError(seq) ==
    IF seq = <<>> THEN None
    ELSE IF Head(seq) \in RecordErrors THEN [err |-> Head(seq)]
    ELSE FirstError(Tail(seq))

\* the results the call received are the channel's content in order
InChannelOrder ==
    \A n \in 1..Len(consumed) :
        n <= Len(pendingAtCall) => consumed[n] = pendingAtCall[n]

W_C19_GuardAfterDrain ==
    /\ Returned("data_buffer")
    /\ ReturnedGuard
    /\ Len(pendingAtCall) = 2
    /\ Len(consumed) = 3

-----------------------------------------------------------------------------
(* SpecAdapter: recorder_managing_thread of a RecorderAsyncAdapter and the *)
(* requests its clients send.  The result of each iteration's              *)
(* recorder.wait_for_frame() is an input of the iteration.  A request      *)
(* carries, next to its destination, the ordinal of its send (req), which  *)
(* identifies it in the list of deliveries.                                *)

InitAdapter ==
    /\ PipeNotStarted
    /\ HsIdle
    /\ RecIdle
    /\ adPc = "wait" /\ adResult = None /\ results = <<>>
    /\ recorder_rx = <<>> /\ txAlive = TRUE
    /\ flush_waiters = <<>> /\ deliveries = <<>> /\ nreqs = 0
    /\ adLimit = MaxAdIters
    /\ CallsIdle
    /\ tasks = [t \in Tasks |-> TaskIdle("a")]

adFrame == <<ringVars, pipeVars, grabLimit, hsVars, recVars, adLimit,
             loopVars, lockVars>>

\* what an iteration's wait_for_frame may return: a status or an error
\* (handle_recorder_message does not look into the error)
FrameResults == EncodeStatuses \cup {"EncodeError"}

Parks_onlySkipped(res) == res = "Skipped"

\* result.as_ref().is_ok_and(|&status| status != EncodeStatus::Flushed)
Parks(res) == res \in {"Skipped", "PreBuffered"}

MappedResult_ok(res) == [ok |-> TRUE]

\* result.map(|_| ())
MappedResult(res) == IF res \in RecordErrors THEN [err |-> res] ELSE [ok |-> TRUE]

\* the result as WaitForFrame gets it
FrameResult(res) == IF res \in RecordErrors THEN [err |-> res] ELSE [status |-> res]

\* ReturnDestination::send_result, for a request or a parked waiter; the
\* record notes the iteration of the delivery and, for a parked waiter, the
\* iteration that parked it (since, 0 for a request answered at once)
Delivery(w, val, it) ==
    [req |-> w.req, dest |-> w.dest, kind |-> w.kind, val |-> val,
     iter |-> it, since |-> w.since]

\* Notify::notify_one: the first waiting task is woken, or, when none waits,
\* the permit is stored (at most one)
NotifyOne_nopermit(st, id) ==
    LET q == st.notify[id].waiters
    IN  IF q # <<>>
        THEN [st EXCEPT !.notify[id].waiters = Tail(q),
                        !.tasks[Head(q)].pc = "woken"]
        ELSE st

NotifyOneOn(st, id) ==
    LET q == st.notify[id].waiters
    IN  IF q # <<>>
        THEN [st EXCEPT !.notify[id].waiters = Tail(q),
                        !.tasks[Head(q)].pc = "woken"]
        ELSE [st EXCEPT !.notify[id].permit = TRUE]

\* ReturnDestination::send_result on the slots: the value (with the request
\* it answers) is stored, then notify_one
SendResult(st, id, value) ==
    NotifyOneOn([st EXCEPT !.return_dest[id] = value], id)

\* the slots, wake signals and tasks as one record
CallState == [return_dest |-> return_dest, notify |-> notify, tasks |-> tasks]

\* the send_results of a list of deliveries, in order
RECURSIVE SendResults(_, _)
SendResults(st, ds) ==
    IF ds = <<>> THEN st
    ELSE SendResults(SendResult(st, <<Head(ds).dest, Head(ds).kind>>,
                                [val |-> Head(ds).val, req |-> Head(ds).req]),
                     Tail(ds))

\* the deliveries of log past the first n are made to the slots
Deposit(log, n) ==
    LET st == SendResults(CallState, SubSeq(log, n + 1, Len(log)))
    IN  /\ return_dest' = st.return_dest
        /\ notify' = st.notify
        /\ tasks' = st.tasks

\* flush_waiters.drain(..).for_each(|d| d.send_result(mapped_result.clone()))
DrainWaiters(waiters, res, it) ==
    [n \in 1..Len(waiters) |-> Delivery(waiters[n], MappedResult(res), it)]

\* handle_recorder_message: the waiters and the deliveries after it
HandleRecorderMessage(msg, waiters, log, res, it) ==
    IF msg.kind = "WaitForFrame"
    THEN [waiters |-> waiters,
          log |-> Append(log, Delivery(msg, FrameResult(res), it))]
    ELSE IF Parks(res)
    THEN [waiters |-> Append(waiters, [msg EXCEPT !.since = it]),
          log |-> log]
    ELSE [waiters |-> <<>>,
          log |-> Append(log, Delivery(msg, MappedResult(res), it))
                      \o DrainWaiters(waiters, res, it)]

\* RecorderAsyncAdapter::wait_for_frame / wait_for_next_flush: the request
\* is sent
ClientSend(kind, dest) ==
    /\ txAlive
    /\ nreqs < MaxReqs
    /\ nreqs' = nreqs + 1
    /\ recorder_rx' = Append(recorder_rx,
                             [kind |-> kind, dest |-> dest, req |-> nreqs + 1,
                              since |-> 0])
    /\ UNCHANGED <<adFrame, adPc, adResult, results, txAlive, flush_waiters,
                   deliveries, callVars>>

\* the last RecorderAsyncAdapter is dropped
ClientsDrop ==
    /\ txAlive
    /\ txAlive' = FALSE
    /\ UNCHANGED <<adFrame, adPc, adResult, results, recorder_rx, flush_waiters,
                   deliveries, nreqs, callVars>>

\* let result = recorder.wait_for_frame().map_err(Arc::new)
AdWaitForFrame(res) ==
    /\ adPc = "wait"
    /\ Len(results) < adLimit
    /\ adResult' = res
    /\ results' = Append(results, res)
    /\ adPc' = "first"
    /\ UNCHANGED <<adFrame, recorder_rx, txAlive, flush_waiters, deliveries,
                   nreqs, callVars>>

\* match rx.try_recv()
AdTryRecv ==
    /\ adPc = "first"
    /\ IF recorder_rx # <<>>
       THEN LET h == HandleRecorderMessage(Head(recorder_rx), flush_waiters,
                                           deliveries, adResult, Len(results))
            IN  /\ recorder_rx' = Tail(recorder_rx)
                /\ flush_waiters' = h.waiters
                /\ deliveries' = h.log
                /\ Deposit(h.log, Len(deliveries))
                /\ adPc' = "drain"
       ELSE /\ adPc' = IF txAlive THEN "drain" ELSE "stopped"
            /\ UNCHANGED <<recorder_rx, flush_waiters, deliveries,
                           return_dest, notify, tasks>>
    /\ UNCHANGED <<adFrame, adResult, results, txAlive, nreqs, issued, returns,
                   dropped, data_buffer_rx>>

\* for msg in rx.try_iter()
AdTryIter ==
    /\ adPc = "drain"
    /\ IF recorder_rx # <<>>
       THEN LET h == HandleRecorderMessage(Head(recorder_rx), flush_waiters,
                                           deliveries, adResult, Len(results))
            IN  /\ recorder_rx' = Tail(recorder_rx)
                /\ flush_waiters' = h.waiters
                /\ deliveries' = h.log
                /\ Deposit(h.log, Len(deliveries))
                /\ UNCHANGED adPc
       ELSE /\ adPc' = "flush"
            /\ UNCHANGED <<recorder_rx, flush_waiters, deliveries,
                           return_dest, notify, tasks>>
    /\ UNCHANGED <<adFrame, adResult, results, txAlive, nreqs, issued, returns,
                   dropped, data_buffer_rx>>

\* the loop without its final block
AdFlushWaiters_none ==
    /\ adPc = "flush"
    /\ adPc' = "wait"
    /\ UNCHANGED <<adFrame, adResult, results, recorder_rx, txAlive, nreqs,
                   flush_waiters, deliveries, callVars>>

\* the waiters are flushed when the result is Flushed or an error
AdFlushWaiters ==
    /\ adPc = "flush"
    /\ IF ~Parks(adResult)
       THEN /\ deliveries' = deliveries
                               \o DrainWaiters(flush_waiters, adResult, Len(results))
            /\ flush_waiters' = <<>>
            /\ Deposit(deliveries', Len(deliveries))
       ELSE UNCHANGED <<flush_waiters, deliveries, return_dest, notify, tasks>>
    /\ adPc' = "wait"
    /\ UNCHANGED <<adFrame, adResult, results, recorder_rx, txAlive, nreqs,
                   issued, returns, dropped, data_buffer_rx>>

ClientNext ==
    \/ \E kind \in {"WaitForFrame", "WaitForNextFlush"}, dest \in Dests :
           ClientSend(kind, dest)
    \/ ClientsDrop

RecorderThreadNext ==
    \/ \E res \in FrameResults : AdWaitForFrame(res)
    \/ AdTryRecv
    \/ AdTryIter
    \/ AdFlushWaiters

NextAdapter == ClientNext \/ RecorderThreadNext

SpecAdapter == InitAdapter /\ [][NextAdapter]_vars

-----------------------------------------------------------------------------
(* Claims about the recorder thread of the adapter, checked under          *)
(* SpecAdapter                                                             *)

\* a status that does not satisfy a flush waiter
NonFlush(res) == res \in {"Skipped", "PreBuffered"}

\* the iterations that are over: all but the one in progress
IterationsDone == IF adPc = "wait" THEN Len(results) ELSE Len(results) - 1

\* C20: a WaitForNextFlush request is answered at once only in an iteration
\* whose result is Flushed or an error; one dispatched in a Skipped or
\* PreBuffered iteration is parked, stays parked through every later Skipped
\* or PreBuffered iteration, and is delivered, with that iteration's result,
\* in the first later iteration whose result is Flushed or an error.
T_C20_ParkedUntilNextFlush ==
    /\ \A n \in 1..Len(deliveries) :
          LET d == deliveries[n]
          IN  d.kind = "WaitForNextFlush" =>
                  /\ ~NonFlush(results[d.iter])
                  /\ d.val = MappedResult(results[d.iter])
                  /\ d.since = 0 \/ d.iter > d.since
                  /\ d.since > 0 =>
                        \A m \in d.since..(d.iter - 1) : NonFlush(results[m])
    /\ \A n \in 1..Len(flush_waiters) :
          LET w == flush_waiters[n]
          IN  /\ w.since > 0
              /\ \A m \in w.since..IterationsDone : NonFlush(results[m])

W_C20_DeliveredAtNextFlushed ==
    /\ results = <<"PreBuffered", "Flushed">>
    /\ \E n \in 1..Len(deliveries) :
          /\ deliveries[n].kind = "WaitForNextFlush"
          /\ deliveries[n].since = 1
          /\ deliveries[n].iter = 2
          /\ deliveries[n].val = [ok |-> TRUE]

W_C20_StillParkedAfterPreBuffered ==
    /\ results = <<"Skipped", "PreBuffered">>
    /\ adPc = "wait"
    /\ Len(flush_waiters) = 2
    /\ flush_waiters[1].since = 1
    /\ flush_waiters[2].since = 2

W_C20_ParkedDeliveredWithError ==
    \E n \in 1..Len(deliveries) :
        /\ deliveries[n].kind = "WaitForNextFlush"
        /\ deliveries[n].since = 1
        /\ deliveries[n].val = [err |-> "EncodeError"]

\* the flush requests (fresh or parked) served in iteration it
FlushDeliveriesOf(it) ==
    {n \in 1..Len(deliveries) :
        deliveries[n].kind = "WaitForNextFlush" /\ deliveries[n].iter = it}

\* the thread is between two iterations and the last one was number it
IterationOver(it) == adPc \in {"wait", "stopped"} /\ Len(results) = it

\* C21: at the end of every iteration whose result is Flushed or an error
\* the pending list is empty, so every waiter that was pending in that
\* iteration was served in it, before the next wait_for_frame; and all flush
\* requests served in one iteration got equal results.
T_C21_WaitersDrainedInIteration ==
    /\ \A it \in 1..Len(results) :
          (IterationOver(it) /\ ~NonFlush(results[it]) /\ adPc = "wait")
              => flush_waiters = <<>>
    /\ \A it \in 1..Len(results) :
          \A n, m \in FlushDeliveriesOf(it) :
              deliveries[n].val = deliveries[m].val
    /\ \A n \in 1..Len(deliveries) :
          deliveries[n].since > 0 =>
              \A m \in 1..Len(flush_waiters) :
                  flush_waiters[m].since >= deliveries[n].iter

\* two waiters parked in iteration 1 were served in the Flushed iteration 2,
\* in which no message arrived
W_C21_TwoWaitersDrainedByLoop ==
    /\ results = <<"PreBuffered", "Flushed">>
    /\ adPc = "wait"
    /\ flush_waiters = <<>>
    /\ Len(deliveries) = 2
    /\ \A n \in 1..2 : deliveries[n].since = 1 /\ deliveries[n].iter = 2
    /\ deliveries[1].dest # deliveries[2].dest

\* the requests the thread has taken from the channel
Dispatched == {r \in 1..nreqs : \A n \in 1..Len(recorder_rx) : recorder_rx[n].req # r}

DeliveriesTo(r) == {n \in 1..Len(deliveries) : deliveries[n].req = r}

Parked(r) == \E n \in 1..Len(flush_waiters) : flush_waiters[n].req = r

\* the result of the current (or last) iteration is an error
CurrentIsError == results # <<>> /\ results[Len(results)] \in RecordErrors

\* C22: in an iteration whose result is an error, every WaitForFrame request
\* dispatched in it and every WaitForNextFlush request dispatched in it or
\* parked before it is sent that error, and none stays parked.
T_C22_ErrorReachesAll ==
    /\ \A n \in 1..Len(deliveries) :
          LET d == deliveries[n]
          IN  results[d.iter] \in RecordErrors =>
                  d.val = [err |-> results[d.iter]]
    /\ \A r \in Dispatched :
          /\ Cardinality(DeliveriesTo(r)) + (IF Parked(r) THEN 1 ELSE 0) = 1
          /\ Parked(r) => ~(CurrentIsError /\ adPc = "wait")
    /\ (CurrentIsError /\ adPc \in {"drain", "flush"}) =>
          \A n \in 1..Len(flush_waiters) :
              flush_waiters[n].since < Len(results)

\* the error of iteration 2 was sent to a WaitForFrame request dispatched in
\* it and to a flush waiter parked in iteration 1
W_C22_ErrorToFrameAndParkedFlush ==
    /\ results = <<"PreBuffered", "EncodeError">>
    /\ Len(deliveries) = 2
    /\ \E n, m \in 1..2 :
          /\ deliveries[n].kind = "WaitForFrame"
          /\ deliveries[n].iter = 2
          /\ deliveries[m].kind = "WaitForNextFlush"
          /\ deliveries[m].since = 1
          /\ deliveries[n].val = [err |-> "EncodeError"]
          /\ deliveries[m].val = [err |-> "EncodeError"]

\* an error iteration served a flush request dispatched in it
W_C22_ErrorToFreshFlush ==
    \E n \in 1..Len(deliveries) :
        /\ deliveries[n].kind = "WaitForNextFlush"
        /\ deliveries[n].since = 0
        /\ deliveries[n].val = [err |-> "EncodeError"]

-----------------------------------------------------------------------------
(* SpecCalls: tasks calling data_buffer, wait_for_frame and                *)
(* wait_for_next_flush on one RecorderAsyncAdapter or on two clones, with  *)
(* the two helper threads.  The tasks run on a single-threaded cooperative *)
(* runtime: a poll runs up to its suspension point before another task is  *)
(* polled, while the helper threads run at any time.  tokio's Notify keeps *)
(* at most one permit and a queue of waiting tasks.                        *)

InitCalls ==
    /\ PipeNotStarted
    /\ HsIdle
    /\ RecIdle
    /\ adPc = "wait" /\ adResult = None /\ results = <<>>
    /\ recorder_rx = <<>> /\ txAlive = TRUE
    /\ flush_waiters = <<>> /\ deliveries = <<>> /\ nreqs = 0
    /\ adLimit = MaxCallIters
    /\ CallsIdle
    /\ \E inst \in Dests :
          tasks = [t \in Tasks |-> TaskIdle(IF t = 1 THEN "a" ELSE inst)]

callFrame == <<ringVars, buffered_frames, frontReaders, capChan, capVars,
               encVars, consVars, grabLimit, hsVars, recVars, adLimit,
               loopVars, lockVars>>

\* a Clone that kept the original's destinations
DestOf_shared(inst) == "a"

\* the destinations of the adapter inst: RecorderAsyncAdapter::new and
\* Clone::clone both make them with ReturnDestination::new()
DestOf(inst) == inst

\* the destination the call of task t sends and then awaits
SlotOf(t) == <<DestOf(tasks[t].inst), tasks[t].kind>>

\* task t is inside a poll (between two suspension points)
InPoll(t) == tasks[t].pc \in {"sent", "ready"}

\* the runtime polls one task at a time
MayRun(t) == \A u \in Tasks \ {t} : ~InPoll(u)

\* data_buffer / wait_for_frame / wait_for_next_flush: tx.send(dest.clone())
TaskSend(t, kind) ==
    /\ tasks[t].pc = "idle"
    /\ MayRun(t)
    /\ txAlive
    /\ nreqs < MaxTaskCalls
    /\ nreqs' = nreqs + 1
    /\ LET msg == [kind |-> kind, dest |-> DestOf(tasks[t].inst),
                   req |-> nreqs + 1, since |-> 0]
       IN  IF kind = "data_buffer"
           THEN /\ data_buffer_rx' = Append(data_buffer_rx, msg)
                /\ UNCHANGED recorder_rx
           ELSE /\ recorder_rx' = Append(recorder_rx, msg)
                /\ UNCHANGED data_buffer_rx
    /\ tasks' = [tasks EXCEPT ![t].pc = "sent", ![t].kind = kind,
                              ![t].req = nreqs + 1]
    /\ issued' = Append(issued, [task |-> t, inst |-> tasks[t].inst,
                                 kind |-> kind])
    /\ UNCHANGED <<callFrame, readers, adPc, adResult, results, txAlive,
                   flush_waiters, deliveries, return_dest, notify, returns,
                   dropped>>

\* recv_result: self.notify.notified().await, first poll: a stored permit
\* is consumed, otherwise the task joins the waiters and suspends
TaskPoll(t) ==
    /\ tasks[t].pc = "sent"
    /\ IF notify[SlotOf(t)].permit
       THEN /\ notify' = [notify EXCEPT ![SlotOf(t)].permit = FALSE]
            /\ tasks' = [tasks EXCEPT ![t].pc = "ready"]
       ELSE /\ notify' = [notify EXCEPT
                             ![SlotOf(t)].waiters = Append(@, t)]
            /\ tasks' = [tasks EXCEPT ![t].pc = "suspended"]
    /\ UNCHANGED <<callFrame, readers, adVars, return_dest, issued, returns,
                   dropped, data_buffer_rx>>

\* recv_result: self.return_dest.lock().take().unwrap()
TaskTake(t) ==
    /\ tasks[t].pc \in {"ready", "woken"}
    /\ MayRun(t)
    /\ IF return_dest[SlotOf(t)] = None
       THEN /\ tasks' = [tasks EXCEPT ![t].pc = "panicked"]
            /\ UNCHANGED <<return_dest, returns>>
       ELSE /\ return_dest' = [return_dest EXCEPT ![SlotOf(t)] = None]
            /\ returns' = Append(returns, [task |-> t, req |-> tasks[t].req,
                                           got |-> return_dest[SlotOf(t)]])
            /\ tasks' = [tasks EXCEPT ![t].pc = "returned"]
    /\ UNCHANGED <<callFrame, readers, adVars, notify, issued, dropped,
                   data_buffer_rx>>

\* the caller is done with what the call returned; an ArcEncodedDataGuard
\* is dropped, which releases its read lock
TaskFinish(t) ==
    /\ tasks[t].pc = "returned"
    /\ MayRun(t)
    /\ readers' = IF tasks[t].kind = "data_buffer" THEN readers - 1
                  ELSE readers
    /\ tasks' = [tasks EXCEPT ![t] = TaskIdle(tasks[t].inst)]
    /\ UNCHANGED <<callFrame, adVars, return_dest, notify, issued, returns,
                   dropped, data_buffer_rx>>

\* the future of a suspended call is dropped: it leaves the waiters; when
\* it had been woken and not polled since, Notify passes the wake-up on
TaskDrop(t) ==
    /\ tasks[t].pc \in {"suspended", "woken"}
    /\ MayRun(t)
    /\ LET id == SlotOf(t)
           st == IF tasks[t].pc = "woken"
                 THEN NotifyOneOn(CallState, id)
                 ELSE [CallState EXCEPT !.notify[id].waiters =
                           SelectSeq(@, LAMBDA u : u # t)]
       IN  /\ notify' = st.notify
           /\ tasks' = [st.tasks EXCEPT ![t] = TaskIdle(tasks[t].inst)]
    /\ dropped' = dropped \cup {tasks[t].req}
    /\ UNCHANGED <<callFrame, readers, adVars, return_dest, issued, returns,
                   data_buffer_rx>>

\* data_buffer_managing_thread, one turn of its loop: get_arc() takes a read
\* lock on the ring, send_result stores the guard in the slot (a guard the
\* slot still held is dropped by the assignment) and notifies
DataThreadServe ==
    /\ data_buffer_rx # <<>>
    /\ LET msg == Head(data_buffer_rx)
           id == <<msg.dest, "data_buffer">>
           st == SendResult(CallState, id, [val |-> "guard", req |-> msg.req])
       IN  /\ readers' = IF return_dest[id] = None THEN readers + 1
                         ELSE readers
           /\ return_dest' = st.return_dest
           /\ notify' = st.notify
           /\ tasks' = st.tasks
    /\ data_buffer_rx' = Tail(data_buffer_rx)
    /\ UNCHANGED <<callFrame, adVars, issued, returns, dropped>>

\* the steps of the tasks, their calls being of the given kinds
TaskNext(kinds) ==
    \E t \in Tasks :
        \/ \E kind \in kinds : TaskSend(t, kind)
        \/ TaskPoll(t)
        \/ TaskTake(t)
        \/ TaskFinish(t)
        \/ TaskDrop(t)

\* the results the recorder thread's iterations get in SpecCalls (the thread
\* treats Skipped as it treats PreBuffered)
CallResults == {"PreBuffered", "Flushed", "EncodeError"}

\* tasks calling wait_for_frame and wait_for_next_flush, and the recorder
\* thread
NextCalls ==
    \/ TaskNext(RecorderCalls)
    \/ \E res \in CallResults : AdWaitForFrame(res)
    \/ AdTryRecv
    \/ AdTryIter
    \/ AdFlushWaiters

SpecCalls == InitCalls /\ [][NextCalls]_vars

\* tasks calling data_buffer, and the data-buffer thread
NextGuards == TaskNext({"data_buffer"}) \/ DataThreadServe

SpecGuards == InitCalls /\ [][NextGuards]_vars

-----------------------------------------------------------------------------
(* Claims about the suspending calls of the adapter, checked under         *)
(* SpecCalls and SpecGuards                                                *)

\* no call found its slot empty (take().unwrap() on None), and every call
\* that returned took the value deposited for its own request
OwnResults ==
    /\ \A t \in Tasks : tasks[t].pc # "panicked"
    /\ \A n \in 1..Len(returns) : returns[n].got.req = returns[n].req

\* C23 as stated: whatever adapters the pending calls are on, every call
\* that resumes (none having been dropped) does so with the result deposited
\* for its request.
CX_C23_ResumesWithOwnResult == dropped = {} => OwnResults

\* what holds: while the two tasks call different clones and no call is
\* dropped, every call that resumes takes the result of its own request,
\* and a call is woken only after a deposit for its request
T_C23_OwnResultOnDistinctClones ==
    (tasks[1].inst # tasks[2].inst /\ dropped = {}) =>
        /\ OwnResults
        /\ \A t \in Tasks :
              tasks[t].pc \in {"woken", "ready"} =>
                  /\ return_dest[SlotOf(t)] # None
                  /\ return_dest[SlotOf(t)].req = tasks[t].req

\* two calls of wait_for_frame pending on the same adapter, both woken
W_C23_TwoPendingOnOneAdapter ==
    /\ tasks[1].inst = tasks[2].inst
    /\ tasks[1].kind = "WaitForFrame" /\ tasks[2].kind = "WaitForFrame"
    /\ tasks[1].pc = "woken" /\ tasks[2].pc = "woken"

\* C24 as stated: after a suspended call was dropped no later call returns
\* the result deposited for it, and once no call is in progress and every
\* request is served no read guard on the ring is held.
CX_C24_DropLeavesNoTrace ==
    /\ \A n \in 1..Len(returns) : returns[n].got.req \notin dropped
    /\ ((\A t \in Tasks : tasks[t].pc = "idle") /\ data_buffer_rx = <<>>)
          => readers = 0

\* a dropped data_buffer call was served: the guard lies in the slot while
\* no call is in progress
W_C24_GuardLeftInSlot ==
    /\ dropped # {}
    /\ \A t \in Tasks : tasks[t].pc = "idle"
    /\ data_buffer_rx = <<>>
    /\ readers = 1

\* C25: a result is deposited only in the slot of the adapter through which
\* its request was sent, it is taken only by a call on that adapter, and
\* only calls on that adapter wait for, or are woken by, its wake signal.
T_C25_ClonesIndependent ==
    /\ \A id \in DestIds :
          return_dest[id] # None =>
              /\ issued[return_dest[id].req].inst = id[1]
              /\ issued[return_dest[id].req].kind = id[2]
    /\ \A n \in 1..Len(returns) :
          issued[returns[n].got.req].inst = tasks[returns[n].task].inst
    /\ \A id \in DestIds :
          \A n \in 1..Len(notify[id].waiters) :
              tasks[notify[id].waiters[n]].inst = id[1]
    /\ \A t \in Tasks :
          tasks[t].pc = "woken" =>
              \E n \in 1..Len(deliveries) :
                  /\ deliveries[n].dest = tasks[t].inst
                  /\ deliveries[n].kind = tasks[t].kind
                  /\ issued[deliveries[n].req].inst = tasks[t].inst

\* two clones, the same call pending on both: the request of the first was
\* served and woke its call, the call on the clone is still suspended and
\* the clone's slot is empty
W_C25_OneCloneServed ==
    /\ tasks[1].inst # tasks[2].inst
    /\ tasks[1].kind = "WaitForFrame" /\ tasks[2].kind = "WaitForFrame"
    /\ tasks[1].pc = "woken" /\ tasks[2].pc = "suspended"
    /\ return_dest[SlotOf(1)] # None
    /\ return_dest[SlotOf(2)] = None

\* both calls returned, each with the result of its own request
W_C25_BothClonesReturned ==
    /\ tasks[1].inst # tasks[2].inst
    /\ Len(returns) = 2
    /\ returns[1].task # returns[2].task
    /\ \A n \in 1..2 : returns[n].got.req = returns[n].req

-----------------------------------------------------------------------------
(* SpecLoop: threading.rs, the thread of a ThreadLoop<W> and its owner.    *)
(* work() is any call that returns a result.                               *)

InitLoop ==
    /\ PipeNotStarted
    /\ HsIdle
    /\ AdIdle
    /\ workChan = <<>> /\ nsent = 0 /\ workerAlive = TRUE
    /\ recPc = "idle" /\ recRet = None
    /\ consumed = <<>> /\ pendingAtCall = <<>> /\ ncalls = 0
    /\ tlPc = "factory" /\ toWorker = <<>>
    /\ tlOwner = "builder" /\ afterJoin = 0
    /\ dequeued = <<>>

loopFrame == <<ringVars, pipeVars, grabLimit, hsVars, adVars, callVars,
               recPc, recRet, consumed, pendingAtCall, ncalls, lockVars>>

\* the ThreadLoopInner is gone: Join was sent and the fields were dropped
OwnerGone == tlOwner = "gone"

\* Join was sent
JoinSent == tlOwner \in {"joining", "gone"}

JoinPending_never == FALSE

\* for message in self.rx.try_iter(): a message is there
JoinPending == toWorker # <<>>

\* a start_loop that could be called again (it took &self)
StartLoop_again ==
    /\ tlOwner \in {"builder", "loop"}
    /\ Len(toWorker) < 8
    /\ toWorker' = Append(toWorker, "StartLoop")
    /\ tlOwner' = "loop"
    /\ UNCHANGED <<loopFrame, workChan, nsent, workerAlive, tlPc, afterJoin,
                   dequeued>>

\* ThreadLoopBuilder::start_loop(self): consumes the builder
StartLoop ==
    /\ tlOwner = "builder"
    /\ toWorker' = Append(toWorker, "StartLoop")
    /\ tlOwner' = "loop"
    /\ UNCHANGED <<loopFrame, workChan, nsent, workerAlive, tlPc, afterJoin,
                   dequeued>>

\* ThreadLoop::work_try_iter / work_recv: the owner receives a result
OwnerRecv ==
    /\ tlOwner = "loop"
    /\ workChan # <<>>
    /\ workChan' = Tail(workChan)
    /\ UNCHANGED <<loopFrame, nsent, workerAlive, tlPc, toWorker, tlOwner,
                   afterJoin, dequeued>>

\* Drop for ThreadLoopInner: let _ = self.tx.send(MessageToWorker::Join);
\* the channel holds 8 messages, so the send does not wait; when the thread
\* has ended the send fails and the error is dropped
DropSendJoin ==
    /\ tlOwner \in {"builder", "loop"}
    /\ Len(toWorker) < 8
    /\ toWorker' = IF tlPc \in {"returned", "panicked", "unreachable"}
                   THEN toWorker
                   ELSE Append(toWorker, "Join")
    /\ tlOwner' = "joining"
    /\ UNCHANGED <<loopFrame, workChan, nsent, workerAlive, tlPc, afterJoin,
                   dequeued>>

\* after Drop::drop the fields are dropped: the JoinHandle (the thread is
\* detached), the SyncSender and the Receiver of the results
DropFields ==
    /\ tlOwner = "joining"
    /\ tlOwner' = "gone"
    /\ workChan' = <<>>
    /\ UNCHANGED <<loopFrame, nsent, workerAlive, tlPc, toWorker, afterJoin,
                   dequeued>>

\* thread::spawn closure: worker_factory() returns, run() is entered
FactoryDone ==
    /\ tlPc = "factory"
    /\ tlPc' = "recv"
    /\ UNCHANGED <<loopFrame, workChan, nsent, workerAlive, toWorker, tlOwner,
                   afterJoin, dequeued>>

\* run: match self.rx.recv().unwrap()
RunRecv ==
    /\ tlPc = "recv"
    /\ toWorker # <<>>
    /\ toWorker' = Tail(toWorker)
    /\ tlPc' = IF Head(toWorker) = "Join" THEN "returned" ELSE "try_iter"
    /\ workerAlive' = (Head(toWorker) # "Join")
    /\ dequeued' = Append(dequeued, Head(toWorker))
    /\ UNCHANGED <<loopFrame, workChan, nsent, tlOwner, afterJoin>>

\* run: for message in self.rx.try_iter() { StartLoop => unreachable!(),
\* Join => return }: the first message there is taken; with none, work()
\* is next
RunTryIter ==
    /\ tlPc = "try_iter"
    /\ nsent < MaxLoopWork \/ JoinSent
    /\ IF JoinPending
       THEN /\ toWorker' = Tail(toWorker)
            /\ dequeued' = Append(dequeued, Head(toWorker))
            /\ tlPc' = IF Head(toWorker) = "StartLoop" THEN "unreachable"
                       ELSE "returned"
            /\ workerAlive' = FALSE
       ELSE /\ tlPc' = "work"
            /\ UNCHANGED <<toWorker, workerAlive, dequeued>>
    /\ UNCHANGED <<loopFrame, workChan, nsent, tlOwner, afterJoin>>

\* run: let result = self.worker.work()
RunWork(result) ==
    /\ tlPc = "work"
    /\ tlPc' = "send"
    /\ recRet' = [work |-> result]
    /\ afterJoin' = IF JoinSent THEN afterJoin + 1 ELSE afterJoin
    /\ UNCHANGED <<ringVars, pipeVars, grabLimit, hsVars, adVars, callVars,
                   lockVars, recPc, consumed, pendingAtCall, ncalls, workChan, nsent,
                   workerAlive, toWorker, tlOwner, dequeued>>

\* run: self.tx.send(result).unwrap(): the send fails, and unwrap panics,
\* when the Receiver has been dropped
RunSend ==
    /\ tlPc = "send"
    /\ IF OwnerGone
       THEN /\ tlPc' = "panicked"
            /\ workerAlive' = FALSE
            /\ UNCHANGED <<workChan, nsent>>
       ELSE /\ workChan' = Append(workChan, recRet.work)
            /\ nsent' = nsent + 1
            /\ tlPc' = "sleep"
            /\ UNCHANGED workerAlive
    /\ recRet' = None
    /\ UNCHANGED <<ringVars, pipeVars, grabLimit, hsVars, adVars, callVars,
                   lockVars, recPc, consumed, pendingAtCall, ncalls, toWorker, tlOwner,
                   afterJoin, dequeued>>

\* run: loop_helper.loop_sleep(), then the next turn of the loop
RunSleep ==
    /\ tlPc = "sleep"
    /\ tlPc' = "try_iter"
    /\ UNCHANGED <<loopFrame, workChan, nsent, workerAlive, toWorker, tlOwner,
                   afterJoin, dequeued>>

LoopOwnerNext == StartLoop \/ OwnerRecv \/ DropSendJoin \/ DropFields

RunNext ==
    \/ FactoryDone
    \/ RunRecv
    \/ RunTryIter
    \/ \E result \in WorkResults : RunWork(result)
    \/ RunSend
    \/ RunSleep

NextLoop == LoopOwnerNext \/ RunNext

\* the thread runs while it can, and a drop that has begun completes
FairLoop == WF_vars(RunNext) /\ WF_vars(DropFields)

SpecLoop == InitLoop /\ [][NextLoop]_vars /\ FairLoop

-----------------------------------------------------------------------------
(* Claims about the thread loop, checked under SpecLoop                    *)

WorkerEnded == tlPc \in {"returned", "panicked"}

\* C26: the drop sends Join without waiting (the channel to the worker never
\* fills, and the drop takes no step of the worker); from then on the worker
\* completes at most one work() call, the one it is in or about to make, and
\* the thread ends, by returning on Join or by the panic of the failed send.
T_C26_DropEndsWorker ==
    /\ [](Len(toWorker) <= 2)
    /\ [](afterJoin <= 1)
    /\ [][(~JoinSent /\ JoinSent') => UNCHANGED <<tlPc, workChan, nsent>>]_vars
    /\ (JoinSent ~> WorkerEnded)

\* the owner let go while the worker was in work(); the worker completed
\* that call and ended
W_C26_DroppedDuringWork ==
    /\ OwnerGone
    /\ afterJoin = 1
    /\ WorkerEnded

\* the worker returned on Join between two calls
W_C26_ReturnedOnJoin ==
    /\ JoinSent
    /\ tlPc = "returned"
    /\ nsent = 2
    /\ afterJoin = 0

\* the thread is in the loop of run(): StartLoop was received, Join was not
LoopStarted == dequeued = <<"StartLoop">>

\* C31: the thread is in work() only after it took StartLoop and before it
\* takes Join; the messages it takes are StartLoop then Join, or Join alone,
\* so StartLoop is never taken inside the loop (unreachable!() is not
\* executed); once Join is taken the thread has returned and stays so; with
\* Join as the first message no work() call was made.
T_C31_LoopProtocol ==
    /\ [](tlPc \in {"work", "send", "sleep", "try_iter", "panicked"}
            => LoopStarted)
    /\ [](dequeued \in {<<>>, <<"StartLoop">>, <<"Join">>,
                        <<"StartLoop", "Join">>})
    /\ [](tlPc # "unreachable")
    /\ []((dequeued # <<>> /\ dequeued[Len(dequeued)] = "Join")
            <=> tlPc = "returned")
    /\ [][tlPc = "returned" => UNCHANGED <<tlPc, recRet, nsent, afterJoin,
                                           dequeued>>]_vars
    /\ [][tlPc' = "work" /\ tlPc # "work"
            => LoopStarted /\ LoopStarted' /\ toWorker = <<>>]_vars
    /\ [](dequeued = <<"Join">>
            => nsent = 0 /\ afterJoin = 0 /\ recRet = None
               /\ workChan = <<>>)

\* the builder was dropped before start_loop: Join was the first message
\* and the thread returned from run() at once
W_C31_JoinFirst ==
    /\ dequeued = <<"Join">>
    /\ tlPc = "returned"
    /\ tlOwner = "gone"

\* started, two work() calls made, then Join taken between two calls
W_C31_StartedThenJoined ==
    /\ dequeued = <<"StartLoop", "Join">>
    /\ tlPc = "returned"
    /\ nsent = 2

\* start_loop and the drop both happened before the thread entered run():
\* both messages waited in the channel and the thread made no work() call
W_C31_BothQueuedBeforeRun ==
    /\ tlPc = "recv"
    /\ toWorker = <<"StartLoop", "Join">>

\* C32: a worker that was inside work() when the harness was dropped (it
\* completed a work() call after Join was sent) does not end by the panic of
\* a failed send: it ends by taking Join and returning from run().
CX_C32_EndsByJoinOnly ==
    afterJoin >= 1 => tlPc # "panicked"

-----------------------------------------------------------------------------
(* Claims about the raw-frame pipeline, checked under SpecStatus.  A frame *)
(* is the ordinal of the grab that captured it; encFrames lists the frames *)
(* the encoder worker obtained from successful frame() calls.              *)

\* C27: the frames the encoder worker obtains are in capture order (never
\* an earlier frame after a later one), each is a captured frame, and the
\* n-th obtained frame is at least the n-th captured one; frames in between
\* may be missing.
T_C27_FramesInCaptureOrder ==
    /\ \A n, m \in 1..Len(encFrames) :
          n < m => encFrames[n] <= encFrames[m]
    /\ \A n \in 1..Len(encFrames) :
          /\ encFrames[n] >= n
          /\ encFrames[n] <= ngrabs

\* frame 2 was captured and never obtained: the encoder got 1 and then 3
W_C27_FrameMissing ==
    /\ Len(encFrames) = 2
    /\ encFrames[1] = 1
    /\ encFrames[2] = 3

\* the first frame the encoder obtained was the second captured
W_C27_FirstFrameMissed ==
    /\ encFrames # <<>>
    /\ encFrames[1] = 2

\* the encode calls (their ordinals) that produced the items of a buffer
EncodeSeqs(items) == [n \in 1..Len(items) |-> items[n].metadata.seq]

Increasing(seq) == \A n, m \in 1..Len(seq) : n < m => seq[n] < seq[m]

\* C28: the live chunks of the ring, in id order, come from encode calls in
\* increasing order, whatever buffered_frames is and whichever iterations
\* were skipped or failed; the staged chunks follow them in the same order.
T_C28_RingInEncodeOrder ==
    /\ Increasing(EncodeSeqs(rb.items) \o EncodeSeqs(gb.items))
    /\ \A n \in 1..Len(rb.items) : rb.items[n].metadata.seq < Len(encFrames)

\* buffered_frames = 2, one iteration skipped: the three chunks of the first
\* flush are live in the ring
W_C28_ThreeFlushedAfterSkip ==
    /\ buffered_frames = 2
    /\ Len(rb.items) = 3
    /\ Count(Statuses, "Skipped") = 1
    /\ Count(Statuses, "Flushed") = 1

\* a chunk that did not fit was lost and the ring holds chunks from before
\* and after it
W_C28_LiveAroundLostChunk ==
    /\ Len(rb.items) = 2
    /\ rb.items[2].metadata.seq > rb.items[1].metadata.seq + 1
    /\ Count(Statuses, "WriteDataError") = 1

\* C36: no two encoder iterations encode the same published frame.
CX_C36_EncodedAtMostOnce ==
    NoErrors =>
        \A n, m \in 1..Len(encFrames) :
            n # m => encFrames[n] # encFrames[m]

\* C36, amended: a published frame is encoded by at most two iterations,
\* and then by two consecutive ones; the zeroed frame the buffers start
\* with is never encoded.
T_C36_EncodedAtMostTwice ==
    /\ \A n \in 1..Len(encFrames) :
          /\ encFrames[n] >= 1
          /\ Count(encFrames, encFrames[n]) <= 2
    /\ \A n, m \in 1..Len(encFrames) :
          (n < m /\ encFrames[n] = encFrames[m]) => m = n + 1

\* frame 2 was encoded by two iterations, both successful, and frame 1 by
\* none: the capture worker had swapped frame 2 in before the encoder
\* locked the front buffer for the first result
W_C36_SecondFrameTwice ==
    /\ encFrames = <<2, 2>>
    /\ NoErrors
    /\ Len(Statuses) = 2

\* two frames encoded twice each
W_C36_TwoFramesTwice ==
    /\ encFrames = <<2, 2, 4, 4>>
    /\ NoErrors

-----------------------------------------------------------------------------
(* SpecFrame: ThreadedCapturer::frame called while the capture worker      *)
(* thread sends its results.  The channel of the ThreadLoop is workChan;   *)
(* two io errors are told apart.                                           *)

IoErrors == {"Error1", "Error2"}

\* Result<(), FrameError>, the WorkResult of CaptureWorker
CaptureResults == {"Ok", "Skipped"} \cup IoErrors

InitFrame ==
    /\ PipeNotStarted
    /\ HsIdle
    /\ RecIdle
    /\ AdIdle

frameFrame == <<ringVars, buffered_frames, readers, capChan, capVars,
                encVars, consVars, grabLimit, hsVars, adVars, callVars,
                loopVars, lockVars>>

IsIoError_any(message) == message # "Ok"

\* message.err().filter(|e| matches!(e, FrameError::Error(_)))
IsIoError(message) == message \in IoErrors

LastError_first(backlog) ==
    LET errors == SelectSeq(backlog, IsIoError)
    IN  IF errors = <<>> THEN None ELSE [err |-> errors[1]]

\* error_iter.last()
LastError(backlog) ==
    LET errors == SelectSeq(backlog, IsIoError)
    IN  IF errors = <<>> THEN None ELSE [err |-> errors[Len(errors)]]

\* ThreadedCapturer::frame is called
CallFrame ==
    /\ recPc = "idle"
    /\ ncalls < MaxCalls
    /\ ncalls' = ncalls + 1
    /\ recPc' = "frame_recv"
    /\ recRet' = None
    /\ consumed' = <<>>
    /\ pendingAtCall' = workChan
    /\ UNCHANGED <<frameFrame, frontReaders, workChan, nsent, workerAlive>>

\* self.thread_loop.work_recv().unwrap()?: the call waits for a result; an
\* Err, Skipped or not, is returned
FrameRecv ==
    /\ recPc = "frame_recv"
    /\ workChan # <<>>
    /\ workChan' = Tail(workChan)
    /\ consumed' = Append(consumed, Head(workChan))
    /\ IF Head(workChan) = "Ok"
       THEN /\ recPc' = "frame_front"
            /\ UNCHANGED recRet
       ELSE /\ recRet' = [call |-> "frame", val |-> [err |-> Head(workChan)]]
            /\ recPc' = "idle"
    /\ UNCHANGED <<frameFrame, frontReaders, nsent, workerAlive, pendingAtCall,
                   ncalls>>

\* work_recv() fails when the worker thread is gone and nothing is pending:
\* unwrap() panics
FrameRecvPanics ==
    /\ recPc = "frame_recv"
    /\ workChan = <<>>
    /\ ~workerAlive
    /\ recPc' = "panicked"
    /\ UNCHANGED <<frameFrame, frontReaders, workChan, nsent, workerAlive,
                   recRet, consumed, pendingAtCall, ncalls>>

\* let frame_guard = FrameGuard::new(self.frame_buf.front()); pendingAtCall
\* notes the backlog at this moment
FrameFront ==
    /\ recPc = "frame_front"
    /\ frontReaders' = frontReaders + 1
    /\ recPc' = "frame_drain"
    /\ pendingAtCall' = workChan
    /\ UNCHANGED <<frameFrame, workChan, nsent, workerAlive, recRet, consumed,
                   ncalls>>

\* work_try_iter() yields a result of the backlog
FrameDrainRecv ==
    /\ recPc = "frame_drain"
    /\ workChan # <<>>
    /\ workChan' = Tail(workChan)
    /\ consumed' = Append(consumed, Head(workChan))
    /\ UNCHANGED <<frameFrame, frontReaders, nsent, workerAlive, recPc, recRet,
                   pendingAtCall, ncalls>>

\* work_try_iter() ends: if let Some(e) = error_iter.last() { return Err(e) }
\* (the guard is dropped), otherwise Ok(frame_guard)
FrameDrainEmpty ==
    /\ recPc = "frame_drain"
    /\ workChan = <<>>
    /\ IF LastError(Tail(consumed)) # None
       THEN /\ recRet' = [call |-> "frame", val |-> LastError(Tail(consumed))]
            /\ frontReaders' = frontReaders - 1
            /\ recPc' = "idle"
       ELSE /\ recRet' = [call |-> "frame", val |-> [guard |-> TRUE]]
            /\ recPc' = "frame_held"
            /\ UNCHANGED frontReaders
    /\ UNCHANGED <<frameFrame, workChan, nsent, workerAlive, consumed,
                   pendingAtCall, ncalls>>

\* the caller drops the FrameGuard
DropFrameGuard ==
    /\ recPc = "frame_held"
    /\ frontReaders' = frontReaders - 1
    /\ recPc' = "idle"
    /\ UNCHANGED <<frameFrame, workChan, nsent, workerAlive, recRet, consumed,
                   pendingAtCall, ncalls>>

CaptureThreadNext ==
    \/ \E result \in CaptureResults : WorkerSends(result)
    \/ WorkerPanics

FrameCallNext ==
    \/ CallFrame
    \/ FrameRecv
    \/ FrameRecvPanics
    \/ FrameFront
    \/ FrameDrainRecv
    \/ FrameDrainEmpty
    \/ DropFrameGuard

NextFrame == CaptureThreadNext \/ FrameCallNext

SpecFrame == InitFrame /\ [][NextFrame]_vars

-----------------------------------------------------------------------------
(* Claims about ThreadedCapturer::frame, checked under SpecFrame           *)

\* frame() has returned
FrameReturned ==
    /\ recPc \in {"idle", "frame_held"}
    /\ recRet # None
    /\ recRet.call = "frame"

\* the results the call received after the first one
Backlog == Tail(consumed)

\* the positions of the io errors in the backlog
ErrorsAt == {n \in 1..Len(Backlog) : Backlog[n] \in IoErrors}

\* C29: when the first result is Ok the call takes the guard on the front
\* frame and receives the pending results without waiting, up to the moment
\* the channel is empty; it returns the last io error among them if there is
\* one (the guard is released), whatever Skipped or Ok results came with it,
\* and the guard otherwise.
T_C29_BacklogLastErrorWins ==
    [][/\ (FrameReturned' /\ consumed' # <<>> /\ consumed'[1] = "Ok") =>
             /\ ErrorsAt' # {} =>
                   /\ recRet'.val =
                         [err |-> Backlog'[CHOOSE n \in ErrorsAt' :
                                             \A m \in ErrorsAt' : m <= n]]
             /\ ErrorsAt' = {} => recRet'.val = [guard |-> TRUE]
             /\ \A n \in 1..Len(pendingAtCall') :
                   n <= Len(Backlog') /\ Backlog'[n] = pendingAtCall'[n]
       /\ (recPc = "frame_drain" /\ recPc' # "frame_drain") =>
             /\ workChan = <<>>
             /\ recPc' = IF ErrorsAt' = {} THEN "frame_held" ELSE "idle"
             /\ frontReaders' = IF recPc' = "frame_held" THEN frontReaders
                                ELSE frontReaders - 1
       /\ (recPc = "frame_front" /\ recPc' = "frame_drain") =>
             frontReaders' = frontReaders + 1]_vars

\* the backlog held two io errors and the second was returned
W_C29_SecondErrorReturned ==
    /\ FrameReturned
    /\ consumed = <<"Ok", "Error1", "Error2">>
    /\ recRet.val = [err |-> "Error2"]

\* a Skipped in the backlog was discarded and the guard returned
W_C29_SkippedDiscarded ==
    /\ FrameReturned
    /\ consumed = <<"Ok", "Skipped", "Ok">>
    /\ recRet.val = [guard |-> TRUE]
    /\ frontReaders = 1

\* C30 as stated: frame() never returns Skipped to its caller.
CX_C30_SkippedNeverReturned ==
    FrameReturned => recRet.val # [err |-> "Skipped"]

\* C30, amended: frame() returns Skipped exactly when the first result it
\* receives is Skipped (it then receives nothing more and takes no guard); a
\* Skipped in the backlog is never returned, there the only errors returned
\* are io errors.
T_C30_SkippedOnlyAsFirstResult ==
    FrameReturned =>
        /\ recRet.val = [err |-> "Skipped"] <=> consumed = <<"Skipped">>
        /\ (consumed[1] = "Ok" /\ ReturnedErr) => recRet.val.err \in IoErrors
        /\ ReturnedErr => recPc = "idle" /\ frontReaders = 0

\* the first result was Skipped and frame() returned it
W_C30_SkippedReturned ==
    /\ FrameReturned
    /\ recRet.val = [err |-> "Skipped"]
    /\ workChan # <<>>

====
